---- MODULE Spec2Model ----
(***************************************************************************)
(* Model of the Modbus register client of ha_dachs_senertec_modbus.        *)
(*                                                                         *)
(* DachsClient (coordinator.py) is modelled as a state machine whose steps *)
(* are the wire operations of the pymodbus client (TCP connect, FC=04      *)
(* read, FC=06 write, socket close).  Every wire operation is split into a *)
(* Begin step (the request is on the wire) and an End step (the library    *)
(* call returned or raised); the Python control flow between two wire      *)
(* operations is folded into the End step that precedes it.                *)
(***************************************************************************)
EXTENDS Integers, Sequences, FiniteSets, TLC

(***************************************************************************)
(* Bounds of the model.                                                    *)
(***************************************************************************)
NumThreads == 2
MaxPin == 2
MaxKeys == 2
MaxRaw == 1

Threads == 1..NumThreads

(***************************************************************************)
(* Program constants.                                                      *)
(***************************************************************************)
RETRY_ATTEMPTS == 3

\* _RETRY_BASE_SLEEP = 0.05 seconds, in milliseconds
RETRY_BASE_SLEEP == 50

WRITE_REGS_sameref ==
    [ glt_pin               |-> [ref |-> 8300, cnt |-> 1, type |-> "U16", fmt |-> "RAW"],
      electrical_setpoint_W |-> [ref |-> 8300, cnt |-> 1, type |-> "U16", fmt |-> "FIX0"],
      bhkw_locked_bool      |-> [ref |-> 8302, cnt |-> 1, type |-> "U16", fmt |-> "ENUM"] ]
WRITE_REGS ==
    [ glt_pin               |-> [ref |-> 8300, cnt |-> 1, type |-> "U16", fmt |-> "RAW"],
      electrical_setpoint_W |-> [ref |-> 8301, cnt |-> 1, type |-> "U16", fmt |-> "FIX0"],
      bhkw_locked_bool      |-> [ref |-> 8302, cnt |-> 1, type |-> "U16", fmt |-> "ENUM"] ]

GLT_PIN_REG == WRITE_REGS["glt_pin"].ref

\* The read catalog (const_bhkw.py): one entry per logical key, in the order
\* of the source.
READ_REGS ==
    [ glt_version               |-> [ref |-> 8000, cnt |-> 1, type |-> "U16", fmt |-> "RAW"],
      device_type               |-> [ref |-> 8001, cnt |-> 1, type |-> "U16", fmt |-> "ENUM"],
      serial_1_2                |-> [ref |-> 8002, cnt |-> 1, type |-> "U16", fmt |-> "RAW"],
      serial_3_4                |-> [ref |-> 8003, cnt |-> 1, type |-> "U16", fmt |-> "RAW"],
      serial_5_6                |-> [ref |-> 8004, cnt |-> 1, type |-> "U16", fmt |-> "RAW"],
      serial_7_8                |-> [ref |-> 8005, cnt |-> 1, type |-> "U16", fmt |-> "RAW"],
      serial_9_10               |-> [ref |-> 8006, cnt |-> 1, type |-> "U16", fmt |-> "RAW"],
      serial_11_12              |-> [ref |-> 8007, cnt |-> 1, type |-> "U16", fmt |-> "RAW"],
      serial_13_14              |-> [ref |-> 8008, cnt |-> 1, type |-> "U16", fmt |-> "RAW"],
      serial_15_16              |-> [ref |-> 8009, cnt |-> 1, type |-> "U16", fmt |-> "RAW"],
      serial_17_18              |-> [ref |-> 8010, cnt |-> 1, type |-> "U16", fmt |-> "RAW"],
      serial_19_20              |-> [ref |-> 8011, cnt |-> 1, type |-> "U16", fmt |-> "RAW"],
      module_nominal_power_kW   |-> [ref |-> 8012, cnt |-> 1, type |-> "U16", fmt |-> "FIX1"],
      plant_status_enum         |-> [ref |-> 8013, cnt |-> 1, type |-> "U16", fmt |-> "ENUM"],
      electrical_power_kW       |-> [ref |-> 8014, cnt |-> 1, type |-> "S16", fmt |-> "FIX1"],
      request_type_enum         |-> [ref |-> 8015, cnt |-> 1, type |-> "U16", fmt |-> "ENUM"],
      runtime_since_start_h     |-> [ref |-> 8016, cnt |-> 1, type |-> "U16", fmt |-> "FIX1"],
      last_shutdown_reason_enum |-> [ref |-> 8017, cnt |-> 1, type |-> "U16", fmt |-> "ENUM"],
      pump_status_enum          |-> [ref |-> 8018, cnt |-> 1, type |-> "U16", fmt |-> "ENUM"],
      temp_out_C                |-> [ref |-> 8019, cnt |-> 1, type |-> "U16", fmt |-> "TEMP"],
      temp_in_C                 |-> [ref |-> 8020, cnt |-> 1, type |-> "U16", fmt |-> "TEMP"],
      lead_quantity_enum        |-> [ref |-> 8021, cnt |-> 1, type |-> "U16", fmt |-> "ENUM"],
      min_runtime_min           |-> [ref |-> 8022, cnt |-> 1, type |-> "U16", fmt |-> "FIX0"],
      max_inlet_temp_C          |-> [ref |-> 8023, cnt |-> 1, type |-> "S16", fmt |-> "TEMP"],
      modulation_onoff          |-> [ref |-> 8024, cnt |-> 1, type |-> "U16", fmt |-> "ENUM"],
      fixed_stage_level         |-> [ref |-> 8025, cnt |-> 1, type |-> "U16", fmt |-> "FIX0"],
      module_type_enum          |-> [ref |-> 8026, cnt |-> 1, type |-> "U16", fmt |-> "ENUM"],
      op_hours_total_h          |-> [ref |-> 8027, cnt |-> 2, type |-> "U32", fmt |-> "FIX0"],
      start_count               |-> [ref |-> 8029, cnt |-> 2, type |-> "U32", fmt |-> "FIX0"],
      energy_el_total_kWh       |-> [ref |-> 8031, cnt |-> 2, type |-> "U32", fmt |-> "FIX1"],
      energy_th_total_kWh       |-> [ref |-> 8033, cnt |-> 2, type |-> "U32", fmt |-> "FIX1"],
      op_hours_stage1_h         |-> [ref |-> 8035, cnt |-> 2, type |-> "U32", fmt |-> "FIX0"],
      op_hours_stage2_h         |-> [ref |-> 8037, cnt |-> 2, type |-> "U32", fmt |-> "FIX0"],
      op_hours_stage3_h         |-> [ref |-> 8039, cnt |-> 2, type |-> "U32", fmt |-> "FIX0"],
      outdoor_temp_C            |-> [ref |-> 8041, cnt |-> 1, type |-> "S16", fmt |-> "TEMP"],
      buffer_T1_C               |-> [ref |-> 8042, cnt |-> 1, type |-> "S16", fmt |-> "TEMP"],
      buffer_T2_C               |-> [ref |-> 8043, cnt |-> 1, type |-> "S16", fmt |-> "TEMP"],
      buffer_T3_C               |-> [ref |-> 8044, cnt |-> 1, type |-> "S16", fmt |-> "TEMP"],
      buffer_T4_C               |-> [ref |-> 8045, cnt |-> 1, type |-> "S16", fmt |-> "TEMP"],
      buffer_T5_unused          |-> [ref |-> 8046, cnt |-> 1, type |-> "S16", fmt |-> "TEMP"],
      buffer_T6_unused          |-> [ref |-> 8047, cnt |-> 1, type |-> "S16", fmt |-> "TEMP"],
      sensor1_unused            |-> [ref |-> 8048, cnt |-> 1, type |-> "S16", fmt |-> "TEMP"],
      sensor2_unused            |-> [ref |-> 8049, cnt |-> 1, type |-> "S16", fmt |-> "TEMP"],
      sensor3_unused            |-> [ref |-> 8050, cnt |-> 1, type |-> "S16", fmt |-> "TEMP"],
      sensor4_unused            |-> [ref |-> 8051, cnt |-> 1, type |-> "S16", fmt |-> "TEMP"],
      temp_sensor5_C            |-> [ref |-> 8052, cnt |-> 1, type |-> "S16", fmt |-> "TEMP"],
      temp_sensor6_C            |-> [ref |-> 8053, cnt |-> 1, type |-> "S16", fmt |-> "TEMP"],
      temp_sensor7_C            |-> [ref |-> 8054, cnt |-> 1, type |-> "S16", fmt |-> "TEMP"],
      temp_sensor8_C            |-> [ref |-> 8055, cnt |-> 1, type |-> "S16", fmt |-> "TEMP"],
      discharge_power_pct       |-> [ref |-> 8056, cnt |-> 1, type |-> "U16", fmt |-> "FIX0"],
      buffer_type_enum          |-> [ref |-> 8057, cnt |-> 1, type |-> "U16", fmt |-> "ENUM"],
      buffer_volume_l           |-> [ref |-> 8058, cnt |-> 1, type |-> "U16", fmt |-> "FIX0"],
      buffer_sensor_cfg_enum    |-> [ref |-> 8059, cnt |-> 1, type |-> "U16", fmt |-> "ENUM"],
      buffer_pos1_pct           |-> [ref |-> 8060, cnt |-> 1, type |-> "U16", fmt |-> "FIX0"],
      buffer_pos2_pct           |-> [ref |-> 8061, cnt |-> 1, type |-> "U16", fmt |-> "FIX0"],
      buffer_pos3_pct           |-> [ref |-> 8062, cnt |-> 1, type |-> "U16", fmt |-> "FIX0"],
      buffer_pos4_pct           |-> [ref |-> 8063, cnt |-> 1, type |-> "U16", fmt |-> "FIX0"],
      heat_provisioning_enum    |-> [ref |-> 8064, cnt |-> 1, type |-> "U16", fmt |-> "ENUM"],
      buffer_discharge_onoff    |-> [ref |-> 8065, cnt |-> 1, type |-> "U16", fmt |-> "ENUM"],
      mm_active_power_kW        |-> [ref |-> 8066, cnt |-> 1, type |-> "U16", fmt |-> "FIX1"],
      mm_modules_detected       |-> [ref |-> 8067, cnt |-> 1, type |-> "U16", fmt |-> "FIX0"],
      mm_modules_available      |-> [ref |-> 8068, cnt |-> 1, type |-> "U16", fmt |-> "FIX0"],
      mm_modules_requested      |-> [ref |-> 8069, cnt |-> 1, type |-> "U16", fmt |-> "FIX0"],
      mm_modules_running        |-> [ref |-> 8070, cnt |-> 1, type |-> "U16", fmt |-> "FIX0"],
      mm_modules_configured     |-> [ref |-> 8071, cnt |-> 1, type |-> "U16", fmt |-> "FIX0"],
      mm_nominal_power_kW       |-> [ref |-> 8072, cnt |-> 1, type |-> "U16", fmt |-> "FIX1"],
      we2_status_enum           |-> [ref |-> 8073, cnt |-> 1, type |-> "U16", fmt |-> "ENUM"],
      we2_set_status_enum       |-> [ref |-> 8074, cnt |-> 1, type |-> "U16", fmt |-> "ENUM"],
      we2_start_count           |-> [ref |-> 8075, cnt |-> 2, type |-> "U32", fmt |-> "FIX0"],
      we2_op_hours_h            |-> [ref |-> 8077, cnt |-> 2, type |-> "U32", fmt |-> "FIX0"],
      we2_available_bool        |-> [ref |-> 8079, cnt |-> 1, type |-> "U16", fmt |-> "ENUM"],
      we2_release_bool          |-> [ref |-> 8080, cnt |-> 1, type |-> "U16", fmt |-> "ENUM"],
      we2_nominal_power_kW      |-> [ref |-> 8081, cnt |-> 1, type |-> "U16", fmt |-> "FIX1"],
      we2_min_runtime_min       |-> [ref |-> 8082, cnt |-> 1, type |-> "U16", fmt |-> "FIX0"],
      we2_connected_to_buffer   |-> [ref |-> 8083, cnt |-> 1, type |-> "U16", fmt |-> "ENUM"] ]

\* the keys of READ_REGS in the order of the catalog (ascending addresses)
READ_KEYS ==
    << "glt_version", "device_type", "serial_1_2", "serial_3_4",
       "serial_5_6", "serial_7_8", "serial_9_10", "serial_11_12",
       "serial_13_14", "serial_15_16", "serial_17_18", "serial_19_20",
       "module_nominal_power_kW", "plant_status_enum", "electrical_power_kW",
       "request_type_enum", "runtime_since_start_h",
       "last_shutdown_reason_enum", "pump_status_enum", "temp_out_C",
       "temp_in_C", "lead_quantity_enum", "min_runtime_min",
       "max_inlet_temp_C", "modulation_onoff", "fixed_stage_level",
       "module_type_enum", "op_hours_total_h", "start_count",
       "energy_el_total_kWh", "energy_th_total_kWh", "op_hours_stage1_h",
       "op_hours_stage2_h", "op_hours_stage3_h", "outdoor_temp_C",
       "buffer_T1_C", "buffer_T2_C", "buffer_T3_C", "buffer_T4_C",
       "buffer_T5_unused", "buffer_T6_unused", "sensor1_unused",
       "sensor2_unused", "sensor3_unused", "sensor4_unused",
       "temp_sensor5_C", "temp_sensor6_C", "temp_sensor7_C",
       "temp_sensor8_C", "discharge_power_pct", "buffer_type_enum",
       "buffer_volume_l", "buffer_sensor_cfg_enum", "buffer_pos1_pct",
       "buffer_pos2_pct", "buffer_pos3_pct", "buffer_pos4_pct",
       "heat_provisioning_enum", "buffer_discharge_onoff",
       "mm_active_power_kW", "mm_modules_detected", "mm_modules_available",
       "mm_modules_requested", "mm_modules_running", "mm_modules_configured",
       "mm_nominal_power_kW", "we2_status_enum", "we2_set_status_enum",
       "we2_start_count", "we2_op_hours_h", "we2_available_bool",
       "we2_release_bool", "we2_nominal_power_kW", "we2_min_runtime_min",
       "we2_connected_to_buffer" >>

\* The first entries of the read catalog; the key lists of DachsClient are
\* drawn from them.
KeyPool == <<"glt_version", "device_type", "serial_1_2", "serial_3_4">>

\* a key that neither READ_REGS nor WRITE_REGS holds
UNKNOWN_KEY == "no_such_key"

Min(a, b) == IF a < b THEN a ELSE b

\* Key lists the client is configured with: the fast list holds MaxKeys
\* keys, the slow list is empty, holds one key, or holds a key followed by
\* an unknown key.
FastKeyLists == { SubSeq(KeyPool, 1, Min(MaxKeys, Len(KeyPool))) }
SlowKeyLists == { <<>>, <<KeyPool[Len(KeyPool)]>>, <<KeyPool[1], UNKNOWN_KEY>> }

NoPin == 0                       \* self._pin is None
Pins == 1..MaxPin                \* remembered PIN values
None == "none"                   \* self._client is None  (Disconnected)
Connected == "conn"              \* self._client is a connected ModbusTcpClient
RawValues == 0..MaxRaw           \* raw register values handed to write_register_key

ReadOps == {"get_fast_keys", "get_slow_keys"}
WriteOps == {"heartbeat", "write_register_key"}
WireLabels == {"connect", "conn_pin", "rc_close", "rc_pin", "read", "write", "close"}

VARIABLES
    client,      \* DachsClient._client: None or Connected
    pin,         \* DachsClient._pin: NoPin or the remembered PIN
    lock,        \* DachsClient._lock: 0 when free, else the owning thread
    fast_keys,   \* DachsClient._fast_keys
    slow_keys,   \* DachsClient._slow_keys
    th,          \* per thread: the public operation it executes and where it is
    connPin,     \* history: the PIN remembered when the current connection was opened
    connFirst,   \* history: the first request issued on the current connection
    prevOp,      \* history: summary of the public operation that finished last
    sclient,     \* _DachsClient._client (sensor.py): None or a connection object
    sopen,       \* the connection objects of _DachsClient whose socket is open
    sth,         \* per caller of _DachsClient: the operation it executes and where it is
    calc         \* a helper function under evaluation: its input and its result

coordVars == <<client, pin, lock, fast_keys, slow_keys, th, connPin, connFirst, prevOp>>
sensorVars == <<sclient, sopen, sth>>
vars == <<coordVars, sensorVars, calc>>

(***************************************************************************)
(* The block planner of sensor.py.                                         *)
(***************************************************************************)

\* keys whose span _group_blocks cuts to its first word
NO_MERGE_KEYS ==
    { "glt_version", "plant_status_enum", "request_type_enum",
      "runtime_since_last_start_h", "last_shutdown_reason_enum" }

\* largest number of words of one FC=04 request
MAX_BLOCK == 50

\* no register address: the word list that stands for the None of _slice holds it
NoAddr == -1

\* _group_blocks: the tuple (s, e, k) appended to spans for key k
Span(k) ==
    LET spec == READ_REGS[k]
        s == spec.ref
        e == s + spec.cnt - 1
    IN  <<s, IF k \in NO_MERGE_KEYS THEN s ELSE e, k>>

\* a list the code builds element by element, held as a tuple
AsList(f) == f \o <<>>

\* spans.sort(key = start): the sort is stable, so a span stands behind the
\* spans that start before it and behind the earlier spans with its start
SortSpans(spans) ==
    LET n == Len(spans)
        before == AsList([i \in 1..n |->
                     Cardinality({j \in 1..n :
                         \/ spans[j][1] < spans[i][1]
                         \/ (spans[j][1] = spans[i][1] /\ j < i)})])
    IN  AsList([r \in 1..n |-> spans[CHOOSE i \in 1..n : before[i] = r - 1]])

\* _group_blocks: "if s == (cur_e + 1)" the span extends the current run
MergeAdjacent_touching(s, cur_e) == s >= cur_e
MergeAdjacent(s, cur_e) == s = cur_e + 1

\* _group_blocks: the loop that merges the sorted spans into runs.  In the
\* loop cur_e is always the end of the span handled last, so span i opens a
\* new run exactly when it does not extend span i - 1; a run reaches from
\* the start of the span that opens it to the end of the last span before
\* the next opening.
MergeRuns(spans) ==
    LET n == Len(spans)
        opens == {i \in 1..n : i = 1 \/ ~MergeAdjacent(spans[i][1], spans[i - 1][2])}
        last == [i \in opens |->
                    CHOOSE j \in i..n : /\ j = n \/ (j + 1) \in opens
                                        /\ \A k \in (i + 1)..j : k \notin opens]
        nth == [r \in 1..Cardinality(opens) |->
                    CHOOSE i \in opens : Cardinality({j \in opens : j < i}) = r - 1]
    IN  AsList([r \in 1..Cardinality(opens) |->
                   <<spans[nth[r]][1], spans[last[nth[r]]][2]>>])

\* _group_blocks: "out_e = min(cur + 50 - 1, e)"
ChunkEnd_wide(cur, e) == Min(cur + MAX_BLOCK, e)
ChunkEnd(cur, e) == Min(cur + MAX_BLOCK - 1, e)

\* _group_blocks: the while loop that cuts one run into requests
RECURSIVE Chunks(_, _)
Chunks(cur, e) ==
    IF cur > e THEN <<>>
    ELSE <<<<cur, ChunkEnd(cur, e)>>>> \o Chunks(ChunkEnd(cur, e) + 1, e)

RECURSIVE SplitRuns(_)
SplitRuns(merged) ==
    IF merged = <<>> THEN <<>>
    ELSE Chunks(Head(merged)[1], Head(merged)[2]) \o SplitRuns(Tail(merged))

\* _group_blocks(keys) for a list of catalog keys
GroupBlocks(keys) ==
    SplitRuns(MergeRuns(SortSpans(AsList([i \in 1..Len(keys) |-> Span(keys[i])]))))

(***************************************************************************)
(* The register codec (helper/processing.py, sensor.py).                   *)
(***************************************************************************)

\* _combine: "b.extend([(r >> 8) & 0xFF, r & 0xFF])" for every word
WordBytes(regs) ==
    [i \in 1..(2 * Len(regs)) |->
        IF i % 2 = 1 THEN (regs[(i + 1) \div 2] \div 256) % 256
                     ELSE regs[i \div 2] % 256]

\* int.from_bytes(b, "big", signed = False)
RECURSIVE FromBytes(_)
FromBytes(b) ==
    IF b = <<>> THEN 0
    ELSE FromBytes(SubSeq(b, 1, Len(b) - 1)) * 256 + b[Len(b)]

\* int.from_bytes(b, "big", signed = True): two's complement over 8 * len(b)
\* bits, computed by giving the first byte its signed weight
SignedWidth_word(b) == IF Len(b) >= 2 THEN SubSeq(b, Len(b) - 1, Len(b)) ELSE b
SignedWidth(b) == b

FromBytesSigned(b) ==
    LET w == SignedWidth(b)
    IN  IF w = <<>> THEN 0
        ELSE IF w[1] >= 128
             THEN FromBytes(<<w[1] - 256>> \o SubSeq(w, 2, Len(w)))
             ELSE FromBytes(w)

\* _combine(regs, signed)
Combine(regs, signed) ==
    IF signed THEN FromBytesSigned(WordBytes(regs)) ELSE FromBytes(WordBytes(regs))

\* characters of the format names of the catalog
FmtChars ==
    [ RAW  |-> <<"R", "A", "W">>,
      ENUM |-> <<"E", "N", "U", "M">>,
      TEMP |-> <<"T", "E", "M", "P">>,
      FIX0 |-> <<"F", "I", "X", "0">>,
      FIX1 |-> <<"F", "I", "X", "1">> ]

DigitChars == <<"0", "1", "2", "3", "4", "5", "6", "7", "8", "9">>

IsDigit(ch) == \E d \in 1..10 : DigitChars[d] = ch

DigitVal(ch) == (CHOOSE d \in 1..10 : DigitChars[d] = ch) - 1

\* int(digits) for a string of decimal digits
RECURSIVE ParseInt(_)
ParseInt(digits) ==
    IF digits = <<>> THEN 0
    ELSE ParseInt(SubSeq(digits, 1, Len(digits) - 1)) * 10 + DigitVal(digits[Len(digits)])

RECURSIVE Pow10(_)
Pow10(p) == IF p = 0 THEN 1 ELSE 10 * Pow10(p - 1)

\* a Python int, or the float nearest to num / den
IntValue(v) == [kind |-> "int", num |-> v, den |-> 1]
FloatValue(n, d) == [kind |-> "float", num |-> n, den |-> d]

\* _scale(value, fmt) for a normalised format name
ScaleChars_leading(value, f) ==
    IF Len(f) >= 3 /\ SubSeq(f, 1, 3) = <<"F", "I", "X">>
    THEN LET tail == SubSeq(f, 4, Len(f))
             lead == CHOOSE n \in 0..Len(tail) :
                         /\ \A i \in 1..n : IsDigit(tail[i])
                         /\ n = Len(tail) \/ ~IsDigit(tail[n + 1])
         IN  FloatValue(value, Pow10(ParseInt(SubSeq(tail, 1, lead))))
    ELSE IF f = <<"T", "E", "M", "P">>
         THEN FloatValue(value, 10)
         ELSE IntValue(value)
ScaleChars(value, f) ==
    IF Len(f) >= 3 /\ SubSeq(f, 1, 3) = <<"F", "I", "X">>
    THEN LET digits == SelectSeq(SubSeq(f, 4, Len(f)), IsDigit)
             p == IF digits # <<>> THEN ParseInt(digits) ELSE 0
         IN  FloatValue(value, Pow10(p))
    ELSE IF f = <<"T", "E", "M", "P">>
         THEN FloatValue(value, 10)
         ELSE IntValue(value)

\* _scale(value, fmt) for the format of a catalog entry
Scale(value, fmt) == ScaleChars(value, FmtChars[fmt])

\* "signed = dtype in (S16, S32)"
Signed(type) == type \in {"S16", "S32"}

\* the registers of no block hold the key: out[k] = None
NoValue == [kind |-> "none", num |-> 0, den |-> 1]

\* _slice(cache, addr, cnt): the words of the first cached block that holds
\* addr .. addr + cnt - 1, or <<NoAddr>> for None; cache is the list of
\* (start, data) pairs in insertion order
RECURSIVE Slice(_, _, _)
Slice(cache, addr, cnt) ==
    IF cache = <<>> THEN <<NoAddr>>
    ELSE LET s == Head(cache)[1]
             data == Head(cache)[2]
         IN  IF s <= addr /\ addr <= s + Len(data) - cnt
             THEN SubSeq(data, addr - s + 1, addr - s + cnt)
             ELSE Slice(Tail(cache), addr, cnt)


NoRequest == [rq |-> "none", a |-> 0, v |-> 0, at |-> "none"]

IdleThread ==
    [ pc      |-> "idle",    \* idle, call, a wire label, except, exit
      fly     |-> FALSE,     \* the wire operation named by pc is in flight
      op      |-> "none",    \* public operation being executed
      phase   |-> "none",    \* position in the public operation
      keys    |-> <<>>,      \* read: the key list
      idx     |-> 0,         \* read: index of the key being read in this pass
      arg     |-> 0,         \* heartbeat: the pin argument (NoPin when omitted)
      addr    |-> 0,         \* write: target register
      val     |-> 0,         \* write: raw value
      attempt |-> 0,         \* read: the local variable attempt
      passes  |-> 0,         \* history: calls of _read_keys_once
      rc      |-> 0,         \* history: calls of _reconnect_and_reheart
      cfail   |-> 0,         \* history: failed connect attempts
      failed  |-> FALSE,     \* history: some wire operation failed
      exc     |-> "none",    \* exception being raised: conn, io
      res     |-> "none",    \* outcome of the operation: ok, conn, io, nopin
      pre     |-> None,      \* history: client when the operation started
      prePin  |-> NoPin,     \* history: pin when the operation started
      out     |-> <<>>,      \* read: the map of the current pass, in insertion order
      log     |-> <<>> ]     \* history: wire requests and sleeps of the operation

\* summary of an operation other than a heartbeat that met no failure
NoOp == [op |-> "other", w |-> 0]

(***************************************************************************)
(* State of _DachsClient (sensor.py) and of the helper evaluations.        *)
(***************************************************************************)

\* the executor jobs that use the _DachsClient of an entry: the poll of
\* DachsFastCoordinator and the press of the PIN button
Callers == {"poll", "button"}

\* ModbusTcpClient objects a _DachsClient can refer to at one time
ConnSeq == <<"c1", "c2", "c3">>

ConnIds == {ConnSeq[i] : i \in 1..Len(ConnSeq)}

IdleCall ==
    [ pc     |-> "idle",     \* idle, connect, read, retry_close, write, close, done
      fly    |-> FALSE,      \* the wire operation named by pc is in flight
      op     |-> "none",     \* read_keys, write_glt_pin, close
      phase  |-> "none",     \* the caller of _conn: first, retry, write
      keys   |-> <<>>,       \* read_keys: the key list
      blocks |-> <<>>,       \* read_keys: the result of _group_blocks
      bi     |-> 0,          \* read_keys: index of the block being read
      cli    |-> None,       \* the local variable client / cli
      cache  |-> <<>>,       \* read_keys: the (start, words) pairs read so far
      val    |-> 0,          \* write_glt_pin: pin_value
      res    |-> "none",     \* outcome: ok, conn, io, key
      out    |-> <<>>,       \* read_keys: the value of every key, in key order
      clean  |-> TRUE,       \* history: every block read so far returned all its words
      req    |-> 0,          \* history: FC=04 requests issued for the current block
      rcn    |-> 0,          \* history: connects issued to retry the current block
      old    |-> None,       \* read_keys: the closed connection client still refers to
      wired  |-> FALSE ]     \* history: the operation issued a wire request

\* no helper evaluation is modelled
NoCalc == [fn |-> "none", arg |-> <<>>, flag |-> FALSE, key |-> "none", out |-> <<>>]

SensorInit ==
    /\ sclient = None
    /\ sopen = {}
    /\ sth = [c \in Callers |-> IdleCall]

CoordInit ==
    /\ client = None
    /\ pin = NoPin
    /\ lock = 0
    /\ fast_keys = <<>>
    /\ slow_keys = <<>>
    /\ th = [t \in Threads |-> IdleThread]
    /\ connPin = NoPin
    /\ connFirst = NoRequest
    /\ prevOp = NoOp

Init ==
    /\ client = None
    /\ pin \in {NoPin} \cup Pins
    /\ lock = 0
    /\ fast_keys \in FastKeyLists
    /\ slow_keys \in SlowKeyLists
    /\ th = [t \in Threads |-> IdleThread]
    /\ connPin = NoPin
    /\ connFirst = NoRequest
    /\ prevOp = NoOp
    /\ SensorInit
    /\ calc = NoCalc


(***************************************************************************)
(* Control flow of DachsClient between two wire operations.                *)
(***************************************************************************)

Upd(t, s) == th' = [th EXCEPT ![t] = s]

\* threading.RLock: "with self._lock" proceeds only when no other thread owns it
LockFree_ignored(t) == TRUE
LockFree(t) == lock = 0

\* _read_keys: "if attempt > _RETRY_ATTEMPTS: raise"
GiveUp_late(attempt) == attempt > RETRY_ATTEMPTS + 1
GiveUp(attempt) == attempt > RETRY_ATTEMPTS

\* _conn: "if self._pin is not None:" re-send the PIN on a new connection
ConnResendsPin_never(p) == FALSE
ConnResendsPin(p) == p # NoPin

\* _conn: "if not cli.connect(): raise ...; self._client = cli"
ClientAfterConnect_always(ok) == Connected
ClientAfterConnect(ok) == IF ok THEN Connected ELSE None

\* close: "finally: self._client = None", whether or not the socket close raised
ClientAfterClose_kept(ok) == IF ok THEN None ELSE Connected
ClientAfterClose(ok) == None

\* heartbeat: "if self._pin is None: raise ValueError"
HeartbeatNoPin_unchecked(p) == FALSE
HeartbeatNoPin(p) == p = NoPin

\* heartbeat: "if pin is not None: self._pin = int(pin)"
RememberPin_dropped(p, old) == old
RememberPin(p, old) == IF p # NoPin THEN p ELSE old

\* an exception leaves the helper and reaches the except clauses of the
\* public operation
Raise(s, e) == [s EXCEPT !.pc = "except", !.exc = e, !.fly = FALSE]

\* the public operation is over: it returns (res = "ok") or raises
Finish(s, r) == [s EXCEPT !.pc = "exit", !.res = r, !.fly = FALSE, !.exc = "none"]

\* _read_keys_once reaches key i: "spec = READ_REGS[key]" raises KeyError for
\* an unknown key, which no except clause of _read_keys catches; else the
\* key is read
ReadAt(s, i) ==
    IF s.keys[i] \in DOMAIN READ_REGS
    THEN [s EXCEPT !.pc = "read", !.fly = FALSE, !.idx = i]
    ELSE Finish([s EXCEPT !.idx = i - 1], "key")

\* _read_keys: "time.sleep(_RETRY_BASE_SLEEP * attempt * attempt)"
BackoffDelay_linear(attempt) == RETRY_BASE_SLEEP * attempt
BackoffDelay(attempt) == RETRY_BASE_SLEEP * attempt * attempt

\* the entry the sleep of _read_keys leaves in the log of the operation
Sleep(attempt) == [rq |-> "sleep", a |-> 0, v |-> BackoffDelay(attempt), at |-> "sleep"]

\* "out[key] = ..." on a dict held as the list of its items
Put(out, e) ==
    IF \E i \in 1..Len(out) : out[i].key = e.key
    THEN [out EXCEPT ![CHOOSE i \in 1..Len(out) : out[i].key = e.key] = e]
    ELSE Append(out, e)

\* _read_keys_once: the item stored for the key just read; the value is
\* named by the pass and by the connection that delivered it (the number of
\* connects the operation has made)
Item(s) == [key |-> s.keys[s.idx], pass |-> s.passes,
            conn |-> Cardinality({i \in 1..Len(s.log) : s.log[i].rq = "connect"})]

\* _read_keys_once: "for key in keys" is over behind the last key
PassComplete_early(idx, n) == idx >= n - 1
PassComplete(idx, n) == idx >= n

\* _reconnect_and_reheart returned: _read_keys sleeps and starts the next
\* pass at the first key, heartbeat / write_register_key repeat their write
AfterRecon(s) ==
    IF s.op \in ReadOps
    THEN ReadAt([s EXCEPT !.phase = "pass", !.passes = @ + 1, !.out = <<>>,
                          !.log = Append(@, Sleep(s.attempt))], 1)
    ELSE [s EXCEPT !.phase = "try2", !.pc = "write", !.fly = FALSE]

\* _conn returned self._client to its caller
AfterConn(s) ==
    CASE s.phase = "conn0" ->
            ReadAt([s EXCEPT !.phase = "pass", !.passes = 1, !.out = <<>>], 1)
      [] s.phase \in {"try1", "try2"} ->
            [s EXCEPT !.pc = "write", !.fly = FALSE]
      [] OTHER ->  \* phase "recon": "if self._pin is not None" re-send the PIN
            IF pin # NoPin
            THEN [s EXCEPT !.pc = "rc_pin", !.fly = FALSE]
            ELSE AfterRecon(s)

\* entry of _conn: "if self._client is None" connect, else reuse
EnterConn(s) ==
    IF client = None
    THEN [s EXCEPT !.pc = "connect", !.fly = FALSE]
    ELSE AfterConn(s)

\* entry of _reconnect_and_reheart: "if self._client:" close it, then _conn
EnterRecon(s) ==
    LET r == [s EXCEPT !.phase = "recon", !.rc = @ + 1, !.exc = "none", !.fly = FALSE]
    IN  IF client # None
        THEN [r EXCEPT !.pc = "rc_close"]
        ELSE [r EXCEPT !.pc = "connect"]

\* the request the thread puts on the wire at its current position; "at" names
\* the place in the code that issues it
Request(s) ==
    CASE s.pc = "connect" -> [rq |-> "connect", a |-> 0, v |-> 0, at |-> s.pc]
      [] s.pc \in {"rc_close", "close"} -> [rq |-> "close", a |-> 0, v |-> 0, at |-> s.pc]
      [] s.pc \in {"conn_pin", "rc_pin"} ->
            [rq |-> "write", a |-> GLT_PIN_REG, v |-> pin, at |-> s.pc]
      [] s.pc = "read" ->
            [rq |-> "read", a |-> READ_REGS[s.keys[s.idx]].ref,
             v |-> READ_REGS[s.keys[s.idx]].cnt, at |-> s.pc]
      [] OTHER ->
            [rq |-> "write", a |-> s.addr,
             v |-> IF s.op = "heartbeat" THEN pin ELSE s.val, at |-> s.pc]

Failed(s, ok) == IF ok THEN s ELSE [s EXCEPT !.failed = TRUE]

\* number of FC=06 writes to the heartbeat register in a log
RECURSIVE PinWrites(_)
PinWrites(log) ==
    IF log = <<>> THEN 0
    ELSE (IF Head(log).rq = "write" /\ Head(log).a = GLT_PIN_REG THEN 1 ELSE 0)
         + PinWrites(Tail(log))

\* a heartbeat that returned without meeting any failure is summarised by the
\* number of PIN writes it issued
Summary(s) ==
    IF s.op = "heartbeat" /\ s.res = "ok" /\ ~s.failed
    THEN [op |-> "heartbeat", w |-> PinWrites(s.log)]
    ELSE NoOp

(***************************************************************************)
(* Actions.                                                                *)
(***************************************************************************)

\* a caller thread (executor job) starts a public operation
Call(t) ==
    /\ th[t].pc = "idle"
    /\ Upd(t, [IdleThread EXCEPT !.pc = "call"])
    /\ UNCHANGED <<client, pin, lock, fast_keys, slow_keys, connPin, connFirst, prevOp>>
    /\ UNCHANGED <<sensorVars, calc>>

\* _read_keys up to its first wire operation
ReadKeys(t, name, keys) ==
    /\ th[t].pc = "call"
    /\ IF keys = <<>>
       THEN \* "if not keys: return {}"
            /\ Upd(t, IdleThread)
            /\ prevOp' = NoOp
            /\ UNCHANGED lock
       ELSE /\ LockFree(t)
            /\ lock' = t
            /\ Upd(t, EnterConn([th[t] EXCEPT !.op = name, !.keys = keys,
                                              !.phase = "conn0", !.pre = client,
                                              !.prePin = pin]))
            /\ UNCHANGED prevOp
    /\ UNCHANGED <<client, pin, fast_keys, slow_keys, connPin, connFirst>>
    /\ UNCHANGED <<sensorVars, calc>>

get_fast_keys(t) == ReadKeys(t, "get_fast_keys", fast_keys)

get_slow_keys(t) == ReadKeys(t, "get_slow_keys", slow_keys)

\* heartbeat up to its first wire operation
heartbeat(t, p) ==
    /\ th[t].pc = "call"
    /\ LockFree(t)
    /\ lock' = t
    /\ pin' = RememberPin(p, pin)
    /\ LET s == [th[t] EXCEPT !.op = "heartbeat", !.arg = p, !.addr = GLT_PIN_REG,
                              !.phase = "try1", !.pre = client, !.prePin = pin]
       IN  IF HeartbeatNoPin(pin')
           THEN Upd(t, Finish(s, "nopin"))
           ELSE Upd(t, EnterConn(s))
    /\ UNCHANGED <<client, fast_keys, slow_keys, connPin, connFirst, prevOp>>
    /\ UNCHANGED <<sensorVars, calc>>

\* write_register_key up to its first wire operation
write_register_key(t, key, raw_value) ==
    /\ th[t].pc = "call"
    /\ IF key \notin DOMAIN WRITE_REGS
       THEN \* "spec = WRITE_REGS[key]" raises KeyError before the lock is taken
            /\ Upd(t, IdleThread)
            /\ prevOp' = NoOp
            /\ UNCHANGED lock
       ELSE /\ LockFree(t)
            /\ lock' = t
            /\ Upd(t, EnterConn([th[t] EXCEPT !.op = "write_register_key",
                                              !.addr = WRITE_REGS[key].ref,
                                              !.val = raw_value, !.phase = "try1",
                                              !.pre = client, !.prePin = pin]))
            /\ UNCHANGED prevOp
    /\ UNCHANGED <<client, pin, fast_keys, slow_keys, connPin, connFirst>>
    /\ UNCHANGED <<sensorVars, calc>>

\* close up to its wire operation
close(t) ==
    /\ th[t].pc = "call"
    /\ LockFree(t)
    /\ lock' = t
    /\ LET s == [th[t] EXCEPT !.op = "close", !.phase = "close", !.pre = client,
                              !.prePin = pin]
       IN  IF client # None
           THEN Upd(t, [s EXCEPT !.pc = "close"])
           ELSE Upd(t, Finish(s, "ok"))
    /\ UNCHANGED <<client, pin, fast_keys, slow_keys, connPin, connFirst, prevOp>>
    /\ UNCHANGED <<sensorVars, calc>>

\* the thread puts its next request on the wire
Begin(t) ==
    /\ th[t].pc \in WireLabels
    /\ ~th[t].fly
    /\ Upd(t, [th[t] EXCEPT !.fly = TRUE, !.log = Append(@, Request(th[t]))])
    /\ connFirst' = IF connFirst = NoRequest /\ Request(th[t]).rq \in {"read", "write"}
                    THEN Request(th[t]) ELSE connFirst
    /\ UNCHANGED <<client, pin, lock, fast_keys, slow_keys, connPin, prevOp>>
    /\ UNCHANGED <<sensorVars, calc>>

\* _conn: cli.connect() returned
EndConnect(t, ok) ==
    /\ th[t].pc = "connect" /\ th[t].fly
    /\ client' = ClientAfterConnect(ok)
    /\ connPin' = IF ok THEN pin ELSE connPin
    /\ connFirst' = IF ok THEN NoRequest ELSE connFirst
    /\ IF ok
       THEN IF ConnResendsPin(pin)
            THEN Upd(t, [th[t] EXCEPT !.pc = "conn_pin", !.fly = FALSE])
            ELSE Upd(t, AfterConn(th[t]))
       ELSE Upd(t, Raise([th[t] EXCEPT !.cfail = @ + 1, !.failed = TRUE], "conn"))
    /\ UNCHANGED <<pin, lock, fast_keys, slow_keys, prevOp>>
    /\ UNCHANGED <<sensorVars, calc>>

\* _conn: "try: self._write_register(PIN) except Exception: warning", then
\* "return self._client"
ConnPinDone_raises(s, ok) == IF ok THEN AfterConn(s) ELSE Raise(Failed(s, ok), "io")
ConnPinDone(s, ok) == AfterConn(Failed(s, ok))

\* _conn: the PIN write after connect returned or raised (the error is logged only)
EndConnPin(t, ok) ==
    /\ th[t].pc = "conn_pin" /\ th[t].fly
    /\ Upd(t, ConnPinDone(th[t], ok))
    /\ UNCHANGED <<client, pin, lock, fast_keys, slow_keys, connPin, connFirst, prevOp>>
    /\ UNCHANGED <<sensorVars, calc>>

\* _reconnect_and_reheart: self._client.close() returned or raised; finally None
EndRcClose(t, ok) ==
    /\ th[t].pc = "rc_close" /\ th[t].fly
    /\ client' = None
    /\ Upd(t, [Failed(th[t], ok) EXCEPT !.pc = "connect", !.fly = FALSE])
    /\ UNCHANGED <<pin, lock, fast_keys, slow_keys, connPin, connFirst, prevOp>>
    /\ UNCHANGED <<sensorVars, calc>>

\* _reconnect_and_reheart: the PIN write returned or raised (the error is logged only)
EndRcPin(t, ok) ==
    /\ th[t].pc = "rc_pin" /\ th[t].fly
    /\ Upd(t, AfterRecon(Failed(th[t], ok)))
    /\ UNCHANGED <<client, pin, lock, fast_keys, slow_keys, connPin, connFirst, prevOp>>
    /\ UNCHANGED <<sensorVars, calc>>

\* _read_keys_once: _fc4_read of the current key returned or raised IOError
EndRead(t, ok) ==
    /\ th[t].pc = "read" /\ th[t].fly
    /\ IF ok
       THEN LET s == [th[t] EXCEPT !.out = Put(@, Item(th[t]))]
            IN  IF PassComplete(s.idx, Len(s.keys))
                THEN Upd(t, Finish(s, "ok"))
                ELSE Upd(t, ReadAt(s, s.idx + 1))
       ELSE Upd(t, Raise(Failed(th[t], ok), "io"))
    /\ UNCHANGED <<client, pin, lock, fast_keys, slow_keys, connPin, connFirst, prevOp>>
    /\ UNCHANGED <<sensorVars, calc>>

\* _write_register: cli.write_register of the target returned or raised IOError
EndWrite(t, ok) ==
    /\ th[t].pc = "write" /\ th[t].fly
    /\ IF ok
       THEN Upd(t, Finish(th[t], "ok"))
       ELSE Upd(t, Raise(Failed(th[t], ok), "io"))
    /\ UNCHANGED <<client, pin, lock, fast_keys, slow_keys, connPin, connFirst, prevOp>>
    /\ UNCHANGED <<sensorVars, calc>>

\* close: self._client.close() returned or raised; finally None
EndClose(t, ok) ==
    /\ th[t].pc = "close" /\ th[t].fly
    /\ client' = ClientAfterClose(ok)
    /\ Upd(t, Finish(Failed(th[t], ok), "ok"))
    /\ UNCHANGED <<pin, lock, fast_keys, slow_keys, connPin, connFirst, prevOp>>
    /\ UNCHANGED <<sensorVars, calc>>

\* the except clauses of _read_keys, heartbeat and write_register_key
Handle(t) ==
    /\ th[t].pc = "except"
    /\ LET s == th[t]
       IN  IF s.op \in ReadOps
           THEN IF s.phase = "pass"
                THEN IF GiveUp(s.attempt + 1)
                     THEN Upd(t, Finish([s EXCEPT !.attempt = @ + 1], s.exc))
                     ELSE Upd(t, EnterRecon([s EXCEPT !.attempt = @ + 1]))
                ELSE Upd(t, Finish(s, s.exc))
           ELSE IF s.phase = "try1"
                THEN Upd(t, EnterRecon(s))
                ELSE Upd(t, Finish(s, s.exc))
    /\ UNCHANGED <<client, pin, lock, fast_keys, slow_keys, connPin, connFirst, prevOp>>
    /\ UNCHANGED <<sensorVars, calc>>

\* "with self._lock": the lock is released when the block is left, by return
\* or by an exception alike
LockAfterExit_held(t, l, r) == IF r = "ok" /\ l = t THEN 0 ELSE l
LockAfterExit(t, l, r) == IF l = t THEN 0 ELSE l

\* the operation leaves "with self._lock" and returns to its caller
Exit(t) ==
    /\ th[t].pc = "exit"
    /\ lock' = LockAfterExit(t, lock, th[t].res)
    /\ prevOp' = Summary(th[t])
    /\ Upd(t, IdleThread)
    /\ UNCHANGED <<client, pin, fast_keys, slow_keys, connPin, connFirst>>
    /\ UNCHANGED <<sensorVars, calc>>

Next ==
    \E t \in Threads :
        \/ Call(t)
        \/ get_fast_keys(t)
        \/ get_slow_keys(t)
        \/ \E p \in {NoPin} \cup Pins : heartbeat(t, p)
        \/ \E key \in DOMAIN WRITE_REGS \cup {UNKNOWN_KEY}, v \in RawValues :
               write_register_key(t, key, v)
        \/ close(t)
        \/ Begin(t)
        \/ \E ok \in BOOLEAN : EndConnect(t, ok)
        \/ \E ok \in BOOLEAN : EndConnPin(t, ok)
        \/ \E ok \in BOOLEAN : EndRcClose(t, ok)
        \/ \E ok \in BOOLEAN : EndRcPin(t, ok)
        \/ \E ok \in BOOLEAN : EndRead(t, ok)
        \/ \E ok \in BOOLEAN : EndWrite(t, ok)
        \/ \E ok \in BOOLEAN : EndClose(t, ok)
        \/ Handle(t)
        \/ Exit(t)

Spec == Init /\ [][Next]_vars

TypeOK ==
    /\ client \in {None, Connected}
    /\ pin \in {NoPin} \cup Pins
    /\ lock \in {0} \cup Threads
    /\ \A t \in Threads : th[t].pc \in {"idle", "call", "except", "exit"} \cup WireLabels


(***************************************************************************)
(* Observations on the wire log of one public operation.                   *)
(***************************************************************************)

IsPinWrite(e) == e.rq = "write" /\ e.a = GLT_PIN_REG

\* number of connect attempts in a log
Connects(log) == Cardinality({i \in 1..Len(log) : log[i].rq = "connect"})

\* number of socket closes in a log
Closes(log) == Cardinality({i \in 1..Len(log) : log[i].rq = "close"})

\* number of writes heartbeat / write_register_key issued for their own target
OwnWrites(log) == Cardinality({i \in 1..Len(log) : log[i].at = "write"})

\* positions of the connects that reopen the connection after a failed pass
\* or a failed write
Reconnects(log) ==
    { i \in 1..Len(log) :
        /\ log[i].rq = "connect"
        /\ \E j \in 1..(i - 1) : log[j].at \in {"read", "write"} }

\* number of PIN writes issued after the connect at position i and before the
\* next request of the operation itself (FC=04 read or target write)
PinWritesAfter(log, i) ==
    Cardinality({ j \in (i + 1)..Len(log) :
                    /\ IsPinWrite(log[j])
                    /\ \A k \in (i + 1)..j : log[k].at \notin {"read", "write"} })

\* number of reads at the end of the log
RECURSIVE TailReads(_)
TailReads(log) ==
    IF log = <<>> \/ log[Len(log)].rq # "read" THEN 0
    ELSE 1 + TailReads(SubSeq(log, 1, Len(log) - 1))

\* number of keys of the current pass whose FC=04 request has been issued
ReadsIssued(s) == IF s.pc = "read" /\ ~s.fly THEN s.idx - 1 ELSE s.idx

(***************************************************************************)
(* Claims.                                                                 *)
(***************************************************************************)

\* C1: at most one wire operation is in flight at any time, a thread inside a
\* public operation owns the lock, and while an operation that has issued wire
\* requests is not over no other thread has issued any: the requests of two
\* operations never interleave.
C1_OneWireOperation ==
    /\ Cardinality({t \in Threads : th[t].fly}) <= 1
    /\ Cardinality({t \in Threads : th[t].log # <<>>}) <= 1
    /\ \A t \in Threads :
          th[t].pc \in WireLabels \cup {"except", "exit"} => lock = t

\* a read is on the wire while another thread has called an operation and
\* waits for the lock
C1_Witness ==
    \E t, u \in Threads :
        /\ t # u
        /\ th[t].fly /\ th[t].pc = "read" /\ th[t].passes = 2
        /\ th[u].pc = "call"

\* C2 (as claimed): with a PIN remembered, a read of known keys that meets
\* three failing passes and then a succeeding pass returns successfully, and
\* each of its three reconnects is followed by exactly one PIN write before
\* the first FC=04 request of the retried pass.
C2_PinOncePerReconnect ==
    \A t \in Threads :
        ( /\ th[t].op \in ReadOps
          /\ th[t].pc = "exit"
          /\ th[t].prePin # NoPin
          /\ th[t].res # "key"
          /\ th[t].passes = RETRY_ATTEMPTS + 1
          /\ th[t].attempt = RETRY_ATTEMPTS )
        => /\ th[t].res = "ok"
           /\ Cardinality(Reconnects(th[t].log)) = RETRY_ATTEMPTS
           /\ \A i \in Reconnects(th[t].log) : PinWritesAfter(th[t].log, i) = 1

\* C3: a read makes at most RETRY_ATTEMPTS + 1 passes and RETRY_ATTEMPTS
\* reconnects; every pass after the first follows a reconnect and requests the
\* keys in list order from the first key; when the last permitted pass fails
\* the operation ends with that I/O error.
C3_ReadBounded ==
    \A t \in Threads :
        th[t].op \in ReadOps =>
            LET s == th[t]
                n == ReadsIssued(s)
            IN  /\ s.passes <= RETRY_ATTEMPTS + 1
                /\ s.attempt <= RETRY_ATTEMPTS + 1
                /\ s.rc <= RETRY_ATTEMPTS
                /\ s.phase = "pass" =>
                      /\ s.rc = s.passes - 1
                      /\ s.attempt = s.rc
                         \/ (s.pc = "exit" /\ s.res = "io" /\ s.attempt = s.rc + 1)
                      /\ Connects(s.log)
                            = s.rc + (IF s.pre = None THEN 1 ELSE 0)
                      /\ TailReads(s.log) = n
                      /\ \A i \in 1..n :
                            s.log[Len(s.log) - n + i].a = READ_REGS[s.keys[i]].ref
                /\ (s.pc = "exit" /\ s.attempt > RETRY_ATTEMPTS) =>
                      /\ s.res = "io"
                      /\ s.passes = RETRY_ATTEMPTS + 1

\* the pass after the third retry failed and the read gave up
C3_Witness ==
    \E t \in Threads :
        /\ th[t].op \in ReadOps /\ th[t].pc = "exit" /\ th[t].res = "io"
        /\ th[t].attempt = RETRY_ATTEMPTS + 1
        /\ th[t].passes = RETRY_ATTEMPTS + 1
        /\ Len(th[t].keys) >= 2

\* C4 (as claimed): one write_register_key call reconnects at most once,
\* re-sends the PIN exactly once on that reconnect, and writes its target
\* register at most twice.
C4_WriteRetriedOnce ==
    \A t \in Threads :
        th[t].op = "write_register_key" =>
            /\ th[t].rc <= 1
            /\ OwnWrites(th[t].log) <= 2
            /\ (th[t].phase = "try2" /\ th[t].prePin # NoPin) =>
                  \A i \in Reconnects(th[t].log) : PinWritesAfter(th[t].log, i) = 1

\* C5: on a connection opened while a PIN was remembered, the first request
\* is the FC=06 write of that PIN to register 8300, issued by _conn.
C5_PinFirstOnConnection ==
    (client = Connected /\ connPin # NoPin /\ connFirst # NoRequest)
        => connFirst = [rq |-> "write", a |-> GLT_PIN_REG, v |-> connPin,
                        at |-> "conn_pin"]

\* a retried pass reads on a reconnected connection whose first request was
\* the PIN write
C5_Witness ==
    \E t \in Threads :
        /\ th[t].op \in ReadOps /\ th[t].rc >= 1 /\ th[t].pc = "read" /\ th[t].fly
        /\ client = Connected /\ connPin # NoPin
        /\ connFirst.at = "conn_pin"

\* C6 (as claimed): an operation that ends with a connect or I/O error leaves
\* the client Disconnected.
C6_ErrorLeavesDisconnected ==
    \A t \in Threads :
        ( /\ th[t].pc = "exit"
          /\ th[t].op \in ReadOps \cup WriteOps
          /\ th[t].res \in {"io", "conn"} )
        => client = None

\* C7: while a connect error is being raised, and when an operation ends with
\* it, the client is Disconnected.
C7_ConnectFailureDisconnected ==
    \A t \in Threads :
        /\ th[t].exc = "conn" => (client = None /\ th[t].pc = "except")
        /\ (th[t].pc = "exit" /\ th[t].res = "conn") => client = None
        /\ (th[t].pc = "connect" => client = None)

\* the connect inside _reconnect_and_reheart failed after the old connection
\* was closed
C7_Witness ==
    \E t \in Threads :
        /\ th[t].exc = "conn" /\ th[t].phase = "recon"
        /\ th[t].pre = Connected
        /\ Closes(th[t].log) = 1

\* C8 (as claimed): after a failed connect attempt the operation makes no
\* further connect attempt and ends with the connect error.
C8_ConnectNotRetried ==
    \A t \in Threads :
        th[t].cfail >= 1 =>
            /\ th[t].pc \in {"except", "exit"}
            /\ th[t].pc = "exit" => th[t].res = "conn"
            /\ th[t].cfail = 1

\* C9 (as claimed, throttling disabled): two consecutive heartbeat calls that
\* meet no failure issue exactly two PIN writes.
C9_TwoHeartbeatsTwoWrites ==
    \A t \in Threads :
        ( /\ th[t].pc = "exit"
          /\ Summary(th[t]).op = "heartbeat"
          /\ prevOp.op = "heartbeat" )
        => prevOp.w + Summary(th[t]).w = 2

\* C10: heartbeat() without a pin while no PIN is remembered ends with the
\* no-PIN error at once: no wire request, no connect, client and PIN unchanged.
C10_NoPinNoWire ==
    \A t \in Threads :
        (th[t].op = "heartbeat" /\ th[t].arg = NoPin /\ th[t].prePin = NoPin)
        => /\ th[t].pc = "exit"
           /\ th[t].res = "nopin"
           /\ th[t].log = <<>>
           /\ client = th[t].pre
           /\ pin = NoPin

\* heartbeat() raised the no-PIN error on a connected client
C10_Witness ==
    \E t \in Threads :
        /\ th[t].op = "heartbeat" /\ th[t].res = "nopin"
        /\ th[t].pre = Connected

(***************************************************************************)
(* _DachsClient (sensor.py): the client the sensor platform polls with and *)
(* the PIN button writes with.  It has no lock; its callers run in the     *)
(* executor pool.                                                          *)
(***************************************************************************)

\* the input registers of the device
DeviceWord(a) == (a * 1047) % 65536

DeviceWords(a, n) == AsList([i \in 1..n |-> DeviceWord(a + i - 1)])

\* a response may lack up to MaxShort of the words it was asked for
MaxShort == 1

KeyPos(k) == CHOOSE i \in 1..Len(READ_KEYS) : READ_KEYS[i] = k

Window(lo, hi) == SubSeq(READ_KEYS, lo, hi)

\* Key lists handed to read_keys: the empty list, lists of up to MaxKeys
\* keys that start at a no-merge key and at a two-word key, a list whose
\* registers form one run of more than MAX_BLOCK words, and a list with an
\* unknown key.
SensorKeyLists ==
    {<<>>}
    \cup { Window(KeyPos(k), KeyPos(k) + n - 1) :
              k \in {"glt_version", "op_hours_total_h"}, n \in 1..MaxKeys }
    \cup { Window(KeyPos("module_type_enum"), KeyPos("we2_start_count")) }
    \cup { <<"glt_version", UNKNOWN_KEY>> }

\* the PIN the button writes
SensorPin == 1

SUpd(c, s) == sth' = [sth EXCEPT ![c] = s]

\* the operation returns (res = "ok") or raises
SFinish(s, r) == [s EXCEPT !.pc = "done", !.res = r, !.fly = FALSE]

\* read_keys: the loop "for k in keys" that fills out
Decode(keys, cache) ==
    [i \in 1..Len(keys) |->
        LET spec == READ_REGS[keys[i]]
            regs == Slice(cache, spec.ref, spec.cnt)
        IN  IF regs = <<NoAddr>> THEN NoValue
            ELSE Scale(Combine(regs, Signed(spec.type)), spec.fmt)]

\* read_keys after its first _conn: _group_blocks raises KeyError for an
\* unknown key, else the blocks are read one by one
Plan(s) ==
    IF \E i \in 1..Len(s.keys) : s.keys[i] \notin DOMAIN READ_REGS
    THEN SFinish(s, "key")
    ELSE LET b == GroupBlocks(s.keys)
         IN  IF b = <<>>
             THEN SFinish([s EXCEPT !.out = Decode(s.keys, <<>>)], "ok")
             ELSE [s EXCEPT !.blocks = b, !.bi = 1, !.pc = "read", !.fly = FALSE]

\* _conn returned the connection object id to its caller
SAfterConn(s, id) ==
    CASE s.phase = "first" -> Plan([s EXCEPT !.cli = id])
      [] s.phase = "retry" -> [s EXCEPT !.cli = id, !.old = None, !.pc = "read", !.fly = FALSE]
      [] OTHER -> [s EXCEPT !.cli = id, !.pc = "write", !.fly = FALSE]

\* the request a caller puts on the wire at its current position
SRequest(s) ==
    CASE s.pc = "connect" -> [rq |-> "connect", a |-> 0, v |-> 0]
      [] s.pc = "read" ->
            [rq |-> "read", a |-> s.blocks[s.bi][1],
             v |-> s.blocks[s.bi][2] - s.blocks[s.bi][1] + 1]
      [] s.pc = "write" -> [rq |-> "write", a |-> GLT_PIN_REG, v |-> s.val]
      [] OTHER -> [rq |-> "close", a |-> 0, v |-> 0]

\* connection objects that are still referenced: by self._client or by the
\* local variable of a caller; an unreferenced object is collected and its
\* socket closed
Held(open, sc, callers) ==
    {x \in open : x = sc \/ \E d \in Callers : callers[d].cli = x}

\* a new ModbusTcpClient object
FreshId ==
    LET free == {x \in ConnIds : /\ x \notin sopen
                                 /\ x # sclient
                                 /\ \A d \in Callers : sth[d].cli # x /\ sth[d].old # x}
    IN  ConnSeq[CHOOSE i \in 1..Len(ConnSeq) :
                    /\ ConnSeq[i] \in free
                    /\ \A j \in 1..(i - 1) : ConnSeq[j] \notin free]

\* the poll calls read_keys(keys)
read_keys(c, keys) ==
    /\ c = "poll"
    /\ sth[c].pc = "idle"
    /\ SUpd(c, [IdleCall EXCEPT !.op = "read_keys", !.keys = keys, !.phase = "first",
                                !.pc = "connect"])
    /\ UNCHANGED <<sclient, sopen>>
    /\ UNCHANGED <<coordVars, calc>>

\* the button calls write_glt_pin(pin_value)
write_glt_pin(c, pin_value) ==
    /\ c = "button"
    /\ sth[c].pc = "idle"
    /\ SUpd(c, [IdleCall EXCEPT !.op = "write_glt_pin", !.val = pin_value,
                                !.phase = "write", !.pc = "connect"])
    /\ UNCHANGED <<sclient, sopen>>
    /\ UNCHANGED <<coordVars, calc>>

\* close()
sensor_close(c) ==
    /\ c = "button"
    /\ sth[c].pc = "idle"
    /\ SUpd(c, [IdleCall EXCEPT !.op = "close", !.pc = "close"])
    /\ UNCHANGED <<sclient, sopen>>
    /\ UNCHANGED <<coordVars, calc>>

\* the caller reaches its next wire operation: _conn connects only "if
\* self._client is None", close closes only "if self._client"
SBegin(c) ==
    LET s == sth[c]
    IN  /\ s.pc \in {"connect", "read", "retry_close", "write", "close"}
        /\ ~s.fly
        /\ IF s.pc = "connect" /\ sclient # None
           THEN SUpd(c, SAfterConn(s, sclient))
           ELSE IF s.pc = "close" /\ sclient = None
                THEN SUpd(c, SFinish(s, "ok"))
                ELSE SUpd(c, [s EXCEPT !.fly = TRUE,
                                       !.cli = IF s.pc = "close" THEN sclient ELSE @,
                                       !.req = IF s.pc = "read" THEN @ + 1 ELSE @,
                                       !.rcn = IF s.pc = "connect" /\ s.phase = "retry"
                                               THEN @ + 1 ELSE @,
                                       !.wired = TRUE])
        /\ UNCHANGED <<sclient, sopen>>
        /\ UNCHANGED <<coordVars, calc>>

\* _conn: cli.connect() returned
EndSConnect(c, ok) ==
    /\ sth[c].pc = "connect" /\ sth[c].fly
    /\ IF ok
       THEN /\ SUpd(c, SAfterConn(sth[c], FreshId))
            /\ sclient' = FreshId
            /\ sopen' = Held(sopen \cup {FreshId}, sclient', sth')
       ELSE /\ SUpd(c, SFinish(sth[c], "conn"))
            /\ UNCHANGED <<sclient, sopen>>
    /\ UNCHANGED <<coordVars, calc>>

\* read_keys: the first _fc4_read of a block stands in a try whose except
\* clause reconnects, the second one stands in that except clause
RetryAllowed_always(phase) == TRUE
RetryAllowed(phase) == phase # "retry"

\* read_keys: _fc4_read of the current block returned n words or raised
EndSRead(c, ok, missing) ==
    LET s == sth[c]
        start == s.blocks[s.bi][1]
        cnt == s.blocks[s.bi][2] - start + 1
        got == [s EXCEPT !.cache = Append(@, <<start, DeviceWords(start, cnt - missing)>>),
                         !.clean = @ /\ missing = 0, !.phase = "first", !.fly = FALSE]
    IN  /\ s.pc = "read" /\ s.fly
        /\ IF ok
           THEN IF s.bi < Len(s.blocks)
                THEN SUpd(c, [got EXCEPT !.bi = @ + 1, !.req = 0, !.rcn = 0])
                ELSE SUpd(c, SFinish([got EXCEPT !.out = Decode(s.keys, got.cache)], "ok"))
           ELSE /\ missing = 0
                /\ IF RetryAllowed(s.phase)
                   THEN SUpd(c, [s EXCEPT !.pc = "retry_close", !.phase = "retry",
                                          !.clean = FALSE, !.fly = FALSE])
                   ELSE SUpd(c, SFinish([s EXCEPT !.clean = FALSE], "io"))
        /\ UNCHANGED <<sclient, sopen>>
        /\ UNCHANGED <<coordVars, calc>>

\* read_keys: client.close() in the except clause returned or raised, then
\* "self._client = None"
EndSRetryClose(c, ok) ==
    /\ sth[c].pc = "retry_close" /\ sth[c].fly
    /\ sclient' = None
    /\ sopen' = sopen \ {sth[c].cli}
    /\ SUpd(c, [sth[c] EXCEPT !.pc = "connect", !.cli = None, !.old = sth[c].cli,
                              !.fly = FALSE])
    /\ UNCHANGED <<coordVars, calc>>

\* write_glt_pin: cli.write_register returned or failed
EndSWrite(c, ok) ==
    /\ sth[c].pc = "write" /\ sth[c].fly
    /\ SUpd(c, SFinish(sth[c], IF ok THEN "ok" ELSE "io"))
    /\ UNCHANGED <<sclient, sopen>>
    /\ UNCHANGED <<coordVars, calc>>

\* close: self._client.close() returned or raised; finally None
EndSClose(c, ok) ==
    /\ sth[c].pc = "close" /\ sth[c].fly
    /\ sclient' = None
    /\ sopen' = sopen \ {sth[c].cli}
    /\ SUpd(c, SFinish(sth[c], IF ok THEN "ok" ELSE "io"))
    /\ UNCHANGED <<coordVars, calc>>

\* the operation returns to its caller
SExit(c) ==
    /\ sth[c].pc = "done"
    /\ SUpd(c, IdleCall)
    /\ sopen' = Held(sopen, sclient, sth')
    /\ UNCHANGED sclient
    /\ UNCHANGED <<coordVars, calc>>

SensorNext ==
    \E c \in Callers :
        \/ \E keys \in SensorKeyLists : read_keys(c, keys)
        \/ write_glt_pin(c, SensorPin)
        \/ sensor_close(c)
        \/ SBegin(c)
        \/ \E ok \in BOOLEAN : EndSConnect(c, ok)
        \/ \E ok \in BOOLEAN, m \in 0..MaxShort : EndSRead(c, ok, m)
        \/ \E ok \in BOOLEAN : EndSRetryClose(c, ok)
        \/ \E ok \in BOOLEAN : EndSWrite(c, ok)
        \/ \E ok \in BOOLEAN : EndSClose(c, ok)
        \/ SExit(c)

SensorSpecInit ==
    /\ CoordInit
    /\ SensorInit
    /\ calc = NoCalc

SensorSpec == SensorSpecInit /\ [][SensorNext]_vars

SensorTypeOK ==
    /\ sclient \in {None} \cup ConnIds
    /\ sopen \subseteq ConnIds
    /\ \A c \in Callers :
          sth[c].pc \in {"idle", "connect", "read", "retry_close", "write", "close", "done"}

(***************************************************************************)
(* Claims about reads, keys and connections.                               *)
(***************************************************************************)

\* C11: reading an empty key list returns an empty map and issues no wire
\* operation at all (no connect, no FC=04 read, no PIN write), here for
\* _DachsClient.read_keys: the call it makes with keys = [] never puts a
\* request on the wire and ends with the empty result.
C11_EmptyReadNoWire ==
    \A c \in Callers :
        (sth[c].op = "read_keys" /\ sth[c].keys = <<>>)
            => /\ ~sth[c].wired
               /\ sth[c].pc \notin {"connect", "read", "retry_close"} \/ ~sth[c].fly
               /\ sth[c].pc = "done" => (sth[c].res = "ok" /\ sth[c].out = <<>>)

\* C12 (as claimed): an operation that fails with the unknown-key error has
\* attempted no wire operation before: no connect, no FC=04 read of the
\* other keys, no FC=06 write.
C12_UnknownKeyNoWire ==
    \A t \in Threads : th[t].res = "key" => th[t].log = <<>>

\* C13: DachsClient.close() is idempotent.  When close() ends the client is
\* Disconnected and nothing is raised, even if the socket close raised; a
\* close() on a Disconnected client (a second close) issues no wire request
\* and raises nothing; and a read or write that starts on a Disconnected
\* client opens a connection before its first FC=04 / FC=06 request.
C13_CloseIdempotent ==
    \A t \in Threads :
        /\ (th[t].op = "close" /\ th[t].pc = "exit")
              => (client = None /\ th[t].res = "ok")
        /\ (th[t].op = "close" /\ th[t].pre = None)
              => (th[t].log = <<>> /\ th[t].pc = "exit")
        /\ ( /\ th[t].op \in ReadOps \cup WriteOps
             /\ th[t].pre = None
             /\ th[t].log # <<>> )
              => th[t].log[1].rq = "connect"

\* close() ended on a connected client whose socket close raised
C13_Witness ==
    \E t \in Threads :
        /\ th[t].op = "close" /\ th[t].pc = "exit"
        /\ th[t].pre = Connected /\ th[t].failed
        /\ client = None

\* C14 (as claimed): a client holds zero or one TCP connection at every
\* moment, here for _DachsClient: at most one of its connection objects has
\* an open socket, and an FC=04 or FC=06 request is on the wire only on an
\* open connection.
C14_SingleConnection ==
    /\ Cardinality(sopen) <= 1
    /\ \A c \in Callers :
          (sth[c].fly /\ sth[c].pc \in {"read", "write"}) => sth[c].cli \in sopen

(***************************************************************************)
(* Evaluation of _group_blocks on lists of catalog keys.                   *)
(***************************************************************************)

\* a key list may leave out up to MaxGap consecutive catalog keys, with up
\* to MaxSide keys on either side of the gap
MaxGap == 1
MaxSide == 3

Reverse(seq) == [i \in 1..Len(seq) |-> seq[Len(seq) + 1 - i]]

\* Lists of distinct catalog keys: every run of consecutive catalog keys
\* (the empty list included); two runs of up to MaxSide keys separated by up
\* to MaxGap keys that are left out; and the whole catalog with up to MaxGap
\* consecutive keys left out.
PlanKeyLists ==
    LET n == Len(READ_KEYS)
    IN  { Window(lo, hi) : lo \in 1..n, hi \in 0..n }
        \cup { Window(q[1] - q[2], q[1] - 1) \o Window(q[1] + q[3], q[1] + q[3] + q[4] - 1) :
                  q \in { p \in (1..n) \X (1..MaxSide) \X (1..MaxGap) \X (1..MaxSide) :
                             p[1] - p[2] >= 1 /\ p[1] + p[3] + p[4] - 1 <= n } }
        \cup { Window(1, q[1] - 1) \o Window(q[1] + q[2], n) :
                  q \in { p \in (2..n) \X (1..MaxGap) : p[1] + p[2] <= n } }

PlanInit ==
    /\ CoordInit
    /\ SensorInit
    /\ \E keys \in PlanKeyLists, reversed \in BOOLEAN :
          calc = [NoCalc EXCEPT !.arg = IF reversed THEN Reverse(keys) ELSE keys,
                                !.flag = reversed]

\* blocks = _group_blocks(keys)
group_blocks ==
    /\ calc.fn = "none"
    /\ calc' = [calc EXCEPT !.fn = "_group_blocks", !.out = GroupBlocks(calc.arg)]
    /\ UNCHANGED <<coordVars, sensorVars>>

PlanNext == group_blocks

PlanSpec == PlanInit /\ [][PlanNext]_vars

\* the register words of the true spans ref .. ref + cnt - 1 of a key list
SpanWords(keys) ==
    UNION { READ_REGS[keys[i]].ref .. (READ_REGS[keys[i]].ref + READ_REGS[keys[i]].cnt - 1) :
               i \in 1..Len(keys) }

\* the register words of a list of ranges
BlockWords(blocks) == UNION { blocks[i][1] .. blocks[i][2] : i \in 1..Len(blocks) }

\* addresses of the no-merge registers
NoMergeAddrs == { READ_REGS[k].ref : k \in NO_MERGE_KEYS \cap DOMAIN READ_REGS }

RECURSIVE SumWidths(_)
SumWidths(blocks) ==
    IF blocks = <<>> THEN 0
    ELSE (Head(blocks)[2] - Head(blocks)[1] + 1) + SumWidths(Tail(blocks))

\* C15 (as claimed): no range of _group_blocks that is wider than one word
\* contains the address of a no-merge register, and the keys at addresses
\* 8013..8020 are read with at least 3 ranges.
C15_NoMergeAlone ==
    calc.fn = "_group_blocks" =>
        /\ \A i \in 1..Len(calc.out) :
              calc.out[i][2] > calc.out[i][1]
                  => \A a \in NoMergeAddrs : a \notin calc.out[i][1]..calc.out[i][2]
        /\ calc.arg = Window(KeyPos("plant_status_enum"), KeyPos("temp_in_C"))
              => Len(calc.out) >= 3

\* C16: for every list of distinct catalog keys the ranges of _group_blocks
\* are each between 1 and MAX_BLOCK words wide, strictly ascending and
\* pairwise disjoint, and cover exactly the words of the requested spans, no
\* word twice: the widths add up to the number of requested words.
C16_BlocksCoverExactly ==
    calc.fn = "_group_blocks" =>
        LET b == calc.out
        IN  /\ \A i \in 1..Len(b) :
                  b[i][1] <= b[i][2] /\ b[i][2] - b[i][1] + 1 <= MAX_BLOCK
            /\ \A i \in 1..(Len(b) - 1) : b[i][2] < b[i + 1][1]
            /\ BlockWords(b) = SpanWords(calc.arg)
            /\ SumWidths(b) = Cardinality(SpanWords(calc.arg))

\* a list given in descending order whose first run is cut at MAX_BLOCK words
\* and whose second run starts behind a gap
C16_Witness ==
    /\ calc.fn = "_group_blocks"
    /\ calc.flag
    /\ Len(calc.out) >= 3
    /\ calc.out[1][2] - calc.out[1][1] + 1 = MAX_BLOCK
    /\ calc.out[3][1] > calc.out[2][2] + 1

\* the value of key k decoded from the device words at ref .. ref + cnt - 1
Expected(k) ==
    Scale(Combine(DeviceWords(READ_REGS[k].ref, READ_REGS[k].cnt),
                  Signed(READ_REGS[k].type)),
          READ_REGS[k].fmt)

\* C17 (as claimed): when every planned block read of read_keys succeeded and
\* returned as many words as requested, every requested key maps to the
\* decoding of the words at its addresses, and so to no null.
C17_ReadMapsEveryKey ==
    \A c \in Callers :
        ( /\ sth[c].op = "read_keys"
          /\ sth[c].pc = "done"
          /\ sth[c].res = "ok"
          /\ sth[c].clean )
        => \A i \in 1..Len(sth[c].keys) : sth[c].out[i] = Expected(sth[c].keys[i])

(***************************************************************************)
(* Evaluation of _combine and of the decoding step of _read_keys_once on   *)
(* word lists.                                                             *)
(***************************************************************************)

\* longest word list
MaxWords == 2

\* register words: the smallest and the largest, the two around the sign
\* bit, and words whose two bytes differ
WordSamples == {0, 1, 2, 4660, 32767, 32768, 65534, 65535}

WordLists == UNION { [1..n -> WordSamples] : n \in 0..MaxWords }

\* the integer of the word list lies within the 32-bit integers of the model
Fits(regs, signed) ==
    LET n == Len(regs)
    IN  \/ n <= 1
        \/ n = 2 /\ signed
        \/ n >= 2 /\ regs[n - 1] < 32768 /\ \A i \in 1..(n - 2) : regs[i] = 0
        \/ n >= 3 /\ signed /\ regs[n - 1] >= 32768 /\ \A i \in 1..(n - 2) : regs[i] = 65535

CodecInit ==
    /\ CoordInit
    /\ SensorInit
    /\ \E regs \in WordLists, signed \in BOOLEAN :
          /\ Fits(regs, signed)
          /\ calc = [NoCalc EXCEPT !.arg = regs, !.flag = signed]

\* raw = _combine(regs, signed)
combine ==
    /\ calc.fn = "none"
    /\ calc' = [calc EXCEPT !.fn = "_combine", !.out = Combine(calc.arg, calc.flag)]
    /\ UNCHANGED <<coordVars, sensorVars>>

\* _read_keys_once: the value stored for a key whose FC=04 response held
\* the words regs
DecodeKey(key, regs) ==
    Scale(Combine(regs, Signed(READ_REGS[key].type)), READ_REGS[key].fmt)

\* _read_keys_once decodes the response of the device for one key; the
\* response holds the requested words or fewer
read_keys_once(key) ==
    /\ calc.fn = "none"
    /\ Len(calc.arg) <= READ_REGS[key].cnt
    /\ calc.flag = Signed(READ_REGS[key].type)
    /\ calc' = [calc EXCEPT !.fn = "_read_keys_once", !.key = key,
                            !.out = DecodeKey(key, calc.arg)]
    /\ UNCHANGED <<coordVars, sensorVars>>

CodecNext ==
    \/ combine
    \/ \E key \in DOMAIN READ_REGS : read_keys_once(key)

CodecSpec == CodecInit /\ [][CodecNext]_vars

\* the words read as digits to the base 65536, the first word replaced by
\* the weight first
RECURSIVE WordValue(_, _)
WordValue(regs, first) ==
    IF Len(regs) = 0 THEN 0
    ELSE IF Len(regs) = 1 THEN first
    ELSE WordValue(SubSeq(regs, 1, Len(regs) - 1), first) * 65536 + regs[Len(regs)]

\* C18: _combine joins the words most significant word first: unsigned, the
\* result is the sum of word_i * 65536^(n-1-i); signed, it is that number
\* read as two's complement over exactly 16 * n bits, that is with the first
\* word weighing word_1 - 65536 when its top bit is set.  [0x0001, 0x0002]
\* unsigned gives 0x00010002 and [0xFFFF, 0xFFFE] signed gives -2.
C18_CombineBigEndian ==
    calc.fn = "_combine" =>
        LET regs == calc.arg
            top == IF regs = <<>> THEN 0 ELSE regs[1]
        IN  /\ ~calc.flag => calc.out = WordValue(regs, top)
            /\ (calc.flag /\ top < 32768) => calc.out = WordValue(regs, top)
            /\ (calc.flag /\ top >= 32768) => calc.out = WordValue(regs, top - 65536)
            /\ (regs = <<1, 2>> /\ ~calc.flag) => calc.out = 65538
            /\ (regs = <<65535, 65534>> /\ calc.flag) => calc.out = -2

\* a signed two-word list whose first word is positive and whose second word
\* has its top bit set
C18_Witness ==
    /\ calc.fn = "_combine"
    /\ calc.flag
    /\ calc.arg = <<1, 65534>>
    /\ calc.out = 131070

\* C19 (as claimed): when the device returns fewer words than the word count
\* of the key, decoding the key fails with a short-read error, here for
\* DachsClient._read_keys_once: no number is computed from fewer than cnt
\* words.
C19_ShortReadFails ==
    (calc.fn = "_read_keys_once" /\ Len(calc.arg) < READ_REGS[calc.key].cnt)
        => calc.out.kind \notin {"int", "float"}

(***************************************************************************)
(* The way of the GLT PIN from the config entry to the FC=06 write.        *)
(***************************************************************************)

\* longest PIN string entered
MaxPinLen == 5

\* characters of the PIN strings: three digits and a letter
PinChars == {"0", "6", "9", "x"}

PinStrings == UNION { [1..n -> PinChars] : n \in 0..MaxPinLen }

\* PIN_VALIDATOR: vol.Match(r"^(\d{4,5})?$"): empty, or 4 to 5 digits
PIN_VALIDATOR(str) ==
    \/ str = <<>>
    \/ Len(str) \in 4..5 /\ \A i \in 1..Len(str) : IsDigit(str[i])

\* str.isdigit(): not empty and digits only
IsDigitString(str) == str # <<>> /\ \A i \in 1..Len(str) : IsDigit(str[i])

PinInit ==
    /\ CoordInit
    /\ SensorInit
    /\ \E str \in PinStrings : calc = [NoCalc EXCEPT !.arg = str]

\* config flow, step user: the PIN is stored when PIN_VALIDATOR accepts it
async_step_user ==
    /\ calc.fn = "none"
    /\ calc' = [calc EXCEPT !.fn = IF PIN_VALIDATOR(calc.arg) THEN "glt_pin" ELSE "invalid",
                            !.key = "user"]
    /\ UNCHANGED <<coordVars, sensorVars>>

\* options flow, step init: the PIN is stored as entered
async_step_init ==
    /\ calc.fn = "none"
    /\ calc' = [calc EXCEPT !.fn = "glt_pin", !.key = "init"]
    /\ UNCHANGED <<coordVars, sensorVars>>

\* _heartbeat_cb: an empty or non-numeric PIN is skipped; else
\* client.heartbeat(int(pin_str)) hands the value to the FC=06 write of
\* _write_register
heartbeat_cb ==
    /\ calc.fn = "glt_pin"
    /\ IF IsDigitString(calc.arg)
       THEN calc' = [calc EXCEPT !.fn = "write_register",
                                 !.out = [a |-> GLT_PIN_REG, v |-> ParseInt(calc.arg)]]
       ELSE calc' = [calc EXCEPT !.fn = "skipped"]
    /\ UNCHANGED <<coordVars, sensorVars>>

PinNext ==
    \/ async_step_user
    \/ async_step_init
    \/ heartbeat_cb

PinSpec == PinInit /\ [][PinNext]_vars

\* C20 (as claimed): every value handed to the FC=06 write of the heartbeat
\* lies in 0..65535, for every PIN string the config flow, the options flow
\* and the heartbeat callback accept.
C20_PinFitsRegister ==
    calc.fn = "write_register" => calc.out.v \in 0..65535

(***************************************************************************)
(* Evaluation of _scale on format strings, and of the encoding of a        *)
(* logical value for a write.                                              *)
(***************************************************************************)

\* longest tail of a format string behind the prefix FIX
MaxFmtTail == 2

\* characters of the tails: digits, a blank and a letter
FmtTailChars == {"0", "1", "2", "4", " ", "A"}

FIX == <<"F", "I", "X">>

LowerChars == <<"f", "i", "x", "t", "e", "m", "p", "r", "a", "w", "n", "u", "d">>
UpperChars == <<"F", "I", "X", "T", "E", "M", "P", "R", "A", "W", "N", "U", "D">>

\* str.upper() on one character
Upper(ch) ==
    IF \E i \in 1..Len(LowerChars) : LowerChars[i] = ch
    THEN UpperChars[CHOOSE i \in 1..Len(LowerChars) : LowerChars[i] = ch]
    ELSE ch

\* str.strip(): the blanks at both ends are removed
RECURSIVE Strip(_)
Strip(str) ==
    IF str = <<>> THEN str
    ELSE IF Head(str) = " " THEN Strip(Tail(str))
    ELSE IF str[Len(str)] = " " THEN Strip(SubSeq(str, 1, Len(str) - 1))
    ELSE str

\* _scale: "f = (fmt or 'RAW').strip().upper()"
Normalize(fmt) ==
    LET s == Strip(IF fmt = <<>> THEN FmtChars["RAW"] ELSE fmt)
    IN  [i \in 1..Len(s) |-> Upper(s[i])]

\* _scale(value, fmt) for a format string as stored in a catalog entry
ScaleStr_raw(value, fmt) == ScaleChars(value, fmt)
ScaleStr(value, fmt) == ScaleChars(value, Normalize(fmt))

\* format strings handed to _scale: FIX with every tail of up to MaxFmtTail
\* characters, the other format names, the empty string, and names in
\* lower case or with blanks around them
FormatStrings ==
    { FIX \o tail : tail \in UNION { [1..n -> FmtTailChars] : n \in 0..MaxFmtTail } }
    \cup { FmtChars["TEMP"], FmtChars["ENUM"], FmtChars["RAW"], <<"D", "T">>, <<>>,
           <<"t", "e", "m", "p">>, <<"f", "i", "x", "1">>, <<" ", "F", "I", "X", "1">>,
           <<"T", "E", "M", "P", "1">> }

\* raw register integers: unsigned and signed 16-bit values
ScaleValues == {0, 1, 5, 213, 4660, 32767, 65535, -1, -213, -32768}

\* the power of ten of the format lies within the integers of the model
ScaleFits(fmt) ==
    LET f == Normalize(fmt)
    IN  ParseInt(SelectSeq(f, IsDigit)) <= 9

\* formats of the registers that can be written
WriteFormats ==
    { FIX \o <<DigitChars[d + 1]>> : d \in 0..4 }
    \cup { FmtChars["TEMP"], FmtChars["ENUM"], FmtChars["RAW"] }

\* round(n / d) for d > 0: to the nearest integer, a tie to the even one
RoundRatio(n, d) ==
    LET q == n \div d
        r == n % d
    IN  IF 2 * r < d THEN q
        ELSE IF 2 * r > d THEN q + 1
        ELSE IF q % 2 = 0 THEN q ELSE q + 1

\* the digits that directly follow the prefix FIX
RECURSIVE LeadingDigits(_)
LeadingDigits(str) ==
    IF str = <<>> \/ ~IsDigit(Head(str)) THEN <<>>
    ELSE <<Head(str)>> \o LeadingDigits(Tail(str))

\* the register can hold the integer
OutOfRange == [kind |-> "OutOfRange", num |-> 0, den |-> 1]

InRegister(raw) == IF raw \in -32768..65535 THEN IntValue(raw) ELSE OutOfRange

\* _encode_for_write(logical_value, fmt): the inverse of the FIXn / TEMP
\* scale (multiply and round to the nearest integer); ENUM and RAW pass
\* through after integer coercion
EncodeForWrite(v, fmt) ==
    LET f == Normalize(fmt)
    IN  IF Len(f) >= 3 /\ SubSeq(f, 1, 3) = FIX
        THEN InRegister(RoundRatio(v.num * Pow10(ParseInt(LeadingDigits(SubSeq(f, 4, Len(f))))),
                                   v.den))
        ELSE IF f = FmtChars["TEMP"]
             THEN InRegister(RoundRatio(v.num * 10, v.den))
             ELSE InRegister(v.num \div v.den)

ScaleInit ==
    /\ CoordInit
    /\ SensorInit
    /\ \E value \in ScaleValues, fmt \in FormatStrings :
          /\ ScaleFits(fmt)
          /\ calc = [NoCalc EXCEPT !.arg = <<value, fmt>>]

\* val = _scale(raw, fmt)
scale ==
    /\ calc.fn = "none"
    /\ calc' = [calc EXCEPT !.fn = "_scale", !.out = ScaleStr(calc.arg[1], calc.arg[2])]
    /\ UNCHANGED <<coordVars, sensorVars>>

\* raw_value = _encode_for_write(logical_value, fmt) for the value _scale
\* gave and a format of a writable register
encode_for_write ==
    /\ calc.fn = "_scale"
    /\ Normalize(calc.arg[2]) \in WriteFormats
    /\ calc' = [calc EXCEPT !.fn = "_encode_for_write",
                            !.out = [logical |-> calc.out,
                                     raw |-> EncodeForWrite(calc.out, calc.arg[2])]]
    /\ UNCHANGED <<coordVars, sensorVars>>

ScaleNext ==
    \/ scale
    \/ encode_for_write

ScaleSpec == ScaleInit /\ [][ScaleNext]_vars

LeadingNumber(str) == ParseInt(LeadingDigits(str))

\* the number formed by all digits of str in their order, every other
\* character skipped
RECURSIVE DigitsNumber(_)
DigitsNumber(str) ==
    IF str = <<>> THEN 0
    ELSE IF IsDigit(str[Len(str)])
         THEN DigitsNumber(SubSeq(str, 1, Len(str) - 1)) * 10 + DigitVal(str[Len(str)])
         ELSE DigitsNumber(SubSeq(str, 1, Len(str) - 1))

\* the format, normalised, starts with FIX
IsFix(fmt) == Len(Normalize(fmt)) >= 3 /\ SubSeq(Normalize(fmt), 1, 3) = FIX

FixTail(fmt) == SubSeq(Normalize(fmt), 4, Len(Normalize(fmt)))

\* C22 (as claimed): for a format that starts with FIX, _scale divides by
\* 10^n where n is the number formed by the digits directly after the
\* prefix (0 when there is none), whatever follows that digit run; TEMP
\* divides by 10; ENUM, RAW and DT return the integer unchanged.
C22_ScaleLeadingDigits ==
    calc.fn = "_scale" =>
        LET value == calc.arg[1]
            fmt == calc.arg[2]
        IN  /\ IsFix(fmt) => calc.out = FloatValue(value, Pow10(LeadingNumber(FixTail(fmt))))
            /\ Normalize(fmt) = FmtChars["TEMP"] => calc.out = FloatValue(value, 10)
            /\ Normalize(fmt) \in {FmtChars["ENUM"], FmtChars["RAW"], <<"D", "T">>}
                  => calc.out = IntValue(value)

\* C22 (amended): for a format that starts with FIX, _scale divides by 10^n
\* where n is the number formed by all digits after the prefix in their
\* order (0 when there is none), and no other character after the prefix
\* changes the result; TEMP divides by 10; every other format returns the
\* integer unchanged.
C22_ScaleAllDigits ==
    calc.fn = "_scale" =>
        LET value == calc.arg[1]
            fmt == calc.arg[2]
        IN  /\ IsFix(fmt) => calc.out = FloatValue(value, Pow10(DigitsNumber(FixTail(fmt))))
            /\ Normalize(fmt) = FmtChars["TEMP"] => calc.out = FloatValue(value, 10)
            /\ (~IsFix(fmt) /\ Normalize(fmt) # FmtChars["TEMP"]) => calc.out = IntValue(value)

\* a format whose digit stands behind a blank was scaled by 10
C22_Witness ==
    /\ calc.fn = "_scale"
    /\ calc.arg = <<213, <<"F", "I", "X", " ", "1">>>>
    /\ calc.out = FloatValue(213, 10)

(***************************************************************************)
(* Claims about the remembered PIN, the stored key list and the callers of *)
(* the sensor client.                                                      *)
(***************************************************************************)

\* C23: the remembered PIN of DachsClient changes only in the step in which
\* heartbeat(pin) is entered with a pin given, and to that pin.  So while
\* any other operation runs (reads, writes, close, heartbeat() without a
\* pin, with their reconnects and failures) the PIN is the one it had when
\* the operation started, and while heartbeat(p) runs and when it returns
\* or raises the PIN is p.
C23_PinFrame ==
    /\ [][pin' # pin =>
            \E t \in Threads :
                /\ th[t].pc = "call"
                /\ th'[t].op = "heartbeat"
                /\ th'[t].arg # NoPin
                /\ pin' = th'[t].arg]_vars
    /\ [](\A t \in Threads :
            th[t].pc \in WireLabels \cup {"except", "exit"} =>
                IF th[t].op = "heartbeat" /\ th[t].arg # NoPin
                THEN pin = th[t].arg
                ELSE pin = th[t].prePin)

\* heartbeat(p) with a new pin raised after its reconnect and its retried
\* write failed
C23_Witness ==
    \E t \in Threads :
        /\ th[t].op = "heartbeat" /\ th[t].pc = "exit" /\ th[t].res = "io"
        /\ th[t].rc = 1
        /\ th[t].arg # NoPin /\ th[t].prePin # NoPin /\ th[t].arg # th[t].prePin
        /\ pin = th[t].arg

(***************************************************************************)
(* The key list async_setup_entry (sensor.py) hands to the poll.           *)
(***************************************************************************)

\* longest list stored under the option fast_keys
MaxOptKeys == 3

\* DEFAULT_KEYS / FAST_KEYS_DEFAULT_STR (const_bhkw.py): the values of the
\* DachsKey members, in the order of the source
FAST_KEYS_DEFAULT_STR ==
    << "plant_status_enum", "op_hours_total_h", "electrical_power_kW",
       "energy_el_total_kWh", "energy_th_total_kWh", "outdoor_temp_C",
       "temp_out_C", "temp_in_C", "buffer_T1_C", "buffer_T2_C", "buffer_T3_C",
       "buffer_T4_C", "last_shutdown_reason", "request_type_enum" >>

\* ALL_READ_KEYS_STR = sorted(READ_REGS.keys()), used as a set
ALL_READ_KEYS_STR == DOMAIN READ_REGS

\* names found in a stored key list: catalog keys and names the catalog
\* does not hold
OptionNames == {"glt_version", "temp_in_C", "op_hours_total_h", UNKNOWN_KEY}

\* values stored under the option: no value, a list of names, or a value
\* that is neither a list nor a tuple
OptionValues ==
    { [kind |-> "absent", items |-> <<>>], [kind |-> "other", items |-> <<>>] }
    \cup { [kind |-> "list", items |-> l] :
              l \in UNION { [1..n -> OptionNames] : n \in 0..MaxOptKeys } }

\* _sanitize_keys(raw)
SanitizeKeys(raw) ==
    IF raw.kind = "list"
    THEN SelectSeq(raw.items, LAMBDA k : k \in ALL_READ_KEYS_STR)
    ELSE FAST_KEYS_DEFAULT_STR

\* async_setup_entry: "wanted_raw = data.get(CONF_KEYS, FAST_KEYS_DEFAULT_STR)"
WantedRaw(opt) ==
    IF opt.kind = "absent"
    THEN [kind |-> "list", items |-> FAST_KEYS_DEFAULT_STR]
    ELSE opt

\* async_setup_entry: the list keys given to DachsFastCoordinator
SetupKeys(opt) ==
    LET keys == SanitizeKeys(WantedRaw(opt))
    IN  IF keys = <<>> THEN FAST_KEYS_DEFAULT_STR ELSE keys

SetupInit ==
    /\ CoordInit
    /\ SensorInit
    /\ \E opt \in OptionValues :
          calc = [NoCalc EXCEPT !.arg = opt.items, !.key = opt.kind]

\* async_setup_entry up to the creation of the coordinator
async_setup_entry ==
    /\ calc.fn = "none"
    /\ calc' = [calc EXCEPT !.fn = "async_setup_entry",
                            !.out = SetupKeys([kind |-> calc.key, items |-> calc.arg])]
    /\ UNCHANGED <<coordVars, sensorVars>>

\* coordinator.async_refresh(): read_keys(keys) plans its blocks;
\* "spec = READ_REGS[k]" in _group_blocks raises KeyError for an unknown key
async_refresh ==
    /\ calc.fn = "async_setup_entry"
    /\ calc' = [calc EXCEPT !.fn = "read_keys", !.arg = calc.out,
                            !.flag = \A i \in 1..Len(calc.out) : calc.out[i] \in DOMAIN READ_REGS,
                            !.out = IF \A i \in 1..Len(calc.out) : calc.out[i] \in DOMAIN READ_REGS
                                    THEN GroupBlocks(calc.out) ELSE <<>>]
    /\ UNCHANGED <<coordVars, sensorVars>>

SetupNext ==
    \/ async_setup_entry
    \/ async_refresh

SetupSpec == SetupInit /\ [][SetupNext]_vars

\* C24 (as claimed): every key async_setup_entry passes to read_keys is a
\* key of READ_REGS, whatever is stored under the option fast_keys, so the
\* planning of the read never meets an unknown key.
C24_OnlyKnownKeysRead ==
    /\ calc.fn = "async_setup_entry"
          => \A i \in 1..Len(calc.out) : calc.out[i] \in DOMAIN READ_REGS
    /\ calc.fn = "read_keys" => calc.flag

\* the operation of caller c has issued a wire request and is not over
OnWire(c) == sth[c].wired /\ sth[c].pc # "done"

\* C25 (as claimed): a press of the PIN button (write_glt_pin) and a poll
\* (read_keys) on the same _DachsClient never overlap on the wire: one of
\* the two has finished all its wire requests before the other issues its
\* first, so the two never have a request in flight on one connection.
C25_PollAndButtonSerialized ==
    /\ ~(OnWire("poll") /\ OnWire("button") /\ sth["button"].op = "write_glt_pin")
    /\ ~( /\ sth["poll"].fly /\ sth["poll"].pc = "read"
          /\ sth["button"].fly /\ sth["button"].pc = "write"
          /\ sth["poll"].cli = sth["button"].cli )

(***************************************************************************)
(* Lookups in the register catalog (const_bhkw.py).                        *)
(***************************************************************************)

\* the names of the catalog entries: the catalog and the key
CatalogNames ==
    { [cat |-> "READ_REGS", key |-> k] : k \in DOMAIN READ_REGS }
    \cup { [cat |-> "WRITE_REGS", key |-> k] : k \in DOMAIN WRITE_REGS }

\* READ_REGS[key] / WRITE_REGS[key]
Entry(n) == IF n.cat = "READ_REGS" THEN READ_REGS[n.key] ELSE WRITE_REGS[n.key]

\* number of 16-bit words of a raw type
TypeWords(type) == IF type \in {"U32", "S32"} THEN 2 ELSE 1

CatalogInit ==
    /\ CoordInit
    /\ SensorInit
    /\ \E a \in CatalogNames, b \in CatalogNames :
          calc = [NoCalc EXCEPT !.arg = <<a, b>>]

\* two entries are looked up
lookup ==
    /\ calc.fn = "none"
    /\ calc' = [calc EXCEPT !.fn = "lookup",
                            !.out = <<Entry(calc.arg[1]), Entry(calc.arg[2])>>]
    /\ UNCHANGED <<coordVars, sensorVars>>

CatalogNext == lookup

CatalogSpec == CatalogInit /\ [][CatalogNext]_vars

\* C26: the catalog is well formed.  For any two entries: when they belong
\* to different catalogs their keys differ; when they are different entries
\* of one catalog their address spans ref .. ref + cnt - 1 are disjoint; and
\* the word count of an entry is the one of its raw type (U16 / S16 one
\* word, U32 / S32 two words).
C26_CatalogWellFormed ==
    calc.fn = "lookup" =>
        LET a == calc.arg[1]
            b == calc.arg[2]
            x == calc.out[1]
            y == calc.out[2]
        IN  /\ a.cat # b.cat => a.key # b.key
            /\ (a.cat = b.cat /\ a.key # b.key)
                  => (x.ref + x.cnt - 1 < y.ref \/ y.ref + y.cnt - 1 < x.ref)
            /\ x.type \in {"U16", "S16", "U32", "S32"}
            /\ x.cnt = TypeWords(x.type)

\* a two-word entry and the entry that starts right behind it
C26_Witness ==
    /\ calc.fn = "lookup"
    /\ calc.arg[1].cat = "READ_REGS" /\ calc.arg[2].cat = "READ_REGS"
    /\ calc.out[1].cnt = 2
    /\ calc.out[2].ref = calc.out[1].ref + 2

(***************************************************************************)
(* Claims about the passes of a read.                                      *)
(***************************************************************************)

\* positions of the backoff sleeps in a log
Sleeps(log) == { i \in 1..Len(log) : log[i].rq = "sleep" }

\* positions of the FC=04 requests that open a pass: the request before
\* them, if any, is no FC=04 request
PassStarts(log) ==
    { i \in 1..Len(log) : log[i].rq = "read" /\ (i = 1 \/ log[i - 1].rq # "read") }

\* C27: in _read_keys the k-th backoff sleep of a call lasts
\* _RETRY_BASE_SLEEP * k * k (50, 200, 450 ms for k = 1, 2, 3), so the
\* delays strictly increase; there are as many sleeps as retried passes, and
\* between the first requests of two consecutive passes lies exactly one
\* sleep: it stands directly before the first request of the retried pass,
\* behind the connect of the reconnect (and behind its PIN writes).
C27_BackoffBetweenPasses ==
    \A t \in Threads :
        th[t].op \in ReadOps =>
            LET log == th[t].log
                S == Sleeps(log)
                P == PassStarts(log)
            IN  /\ Cardinality(S) <= RETRY_ATTEMPTS
                /\ \A i \in S :
                      LET k == Cardinality({j \in S : j <= i})
                      IN  /\ log[i].v = RETRY_BASE_SLEEP * k * k
                          /\ \A j \in S : j < i => log[j].v < log[i].v
                          /\ i > 1 /\ log[i - 1].at \in {"connect", "conn_pin", "rc_pin"}
                          /\ \E c \in 1..(i - 1) :
                                /\ log[c].rq = "connect"
                                /\ \A m \in c..(i - 1) : log[m].rq # "read"
                          /\ i < Len(log) =>
                                /\ log[i + 1].rq = "read"
                                /\ log[i + 1].a = READ_REGS[th[t].keys[1]].ref
                /\ \A p \in P, q \in P :
                      (p < q /\ \A m \in P : ~(p < m /\ m < q))
                          => /\ Cardinality({i \in S : p < i /\ i < q}) = 1
                             /\ (q - 1) \in S
                /\ th[t].phase = "pass" => Cardinality(S) = th[t].passes - 1

\* the fourth pass of a read of two keys is on the wire, behind three sleeps
C27_Witness ==
    \E t \in Threads :
        /\ th[t].op \in ReadOps /\ th[t].pc = "read" /\ th[t].fly
        /\ Len(th[t].keys) >= 2
        /\ Cardinality(Sleeps(th[t].log)) = RETRY_ATTEMPTS
        /\ Cardinality(PassStarts(th[t].log)) = RETRY_ATTEMPTS + 1
        /\ th[t].prePin # NoPin

\* C28: the map a read returns has exactly the keys of the list, in list
\* order, and every value in it was read in the last pass, on the connection
\* that is current when the read returns; at no moment does the map under
\* construction hold a value of an earlier pass.
C28_MapFromOnePass ==
    \A t \in Threads :
        th[t].op \in ReadOps =>
            LET s == th[t]
            IN  /\ \A i \in 1..Len(s.out) : s.out[i].pass = s.passes
                /\ (s.phase = "pass" /\ s.pc \in {"read", "exit"}) =>
                      \A i \in 1..Len(s.out) :
                          s.out[i].key = s.keys[i] /\ s.out[i].conn = Connects(s.log)
                /\ (s.pc = "exit" /\ s.res = "ok") =>
                      /\ Len(s.out) = Len(s.keys)
                      /\ client = Connected

\* a read of two keys returned its map from the pass after two failed passes,
\* the second of which had read the first key
C28_Witness ==
    \E t \in Threads :
        /\ th[t].op \in ReadOps /\ th[t].pc = "exit" /\ th[t].res = "ok"
        /\ th[t].passes = 3
        /\ Len(th[t].keys) = 2 /\ Len(th[t].out) = 2
        /\ \E i \in 1..(Len(th[t].log) - 2) :
              /\ th[t].log[i].rq = "read" /\ th[t].log[i + 1].rq = "read"
              /\ th[t].log[i + 2].rq # "read"

(***************************************************************************)
(* Claims about the retries of the sensor client and about the PIN         *)
(* re-send.                                                                *)
(***************************************************************************)

\* C29: in _DachsClient.read_keys every planned block is requested at most
\* twice and has at most one connect issued for its retry; while the
\* reconnect runs the connection the failed read used is closed; the blocks
\* read so far are the blocks before the current one, each once (a block
\* already read is not requested again); and a call that ends with the
\* error of the retried read or of the reconnect returns no map.
C29_BlockRetriedOnce ==
    \A c \in Callers :
        sth[c].op = "read_keys" =>
            LET s == sth[c]
            IN  /\ s.req <= 2
                /\ s.rcn <= 1
                /\ (s.phase = "retry" /\ s.pc = "connect")
                      => (s.old # None /\ s.old \notin sopen)
                /\ s.pc \in {"read", "retry_close"} \/ (s.pc = "connect" /\ s.phase = "retry")
                      => /\ Len(s.cache) = s.bi - 1
                         /\ \A j \in 1..Len(s.cache) : s.cache[j][1] = s.blocks[j][1]
                /\ (s.pc = "done" /\ s.res \in {"io", "conn"}) => s.out = <<>>
                /\ (s.pc = "done" /\ s.req = 2 /\ s.res # "ok") => s.res = "io"

\* the retried read of the second block failed after the first block had
\* been read
C29_Witness ==
    \E c \in Callers :
        /\ sth[c].op = "read_keys" /\ sth[c].pc = "done" /\ sth[c].res = "io"
        /\ sth[c].bi = 2 /\ sth[c].req = 2 /\ sth[c].rcn = 1
        /\ Len(sth[c].cache) = 1

\* C30: a failure of the PIN re-send after a connect or reconnect is
\* swallowed.  The step that ends a PIN re-send, whether the write succeeded
\* or failed, raises nothing, keeps the new connection, and leads to the
\* next request of the operation: the second PIN write of a reconnect, the
\* first FC=04 read of the pass, or the FC=06 write of the target.  And the
\* outcome of a read or write is that of its own requests: it ends ok or
\* with an I/O error only directly after its own FC=04 / FC=06 request, and
\* with a connect error only directly after a connect.
C30_PinResendSwallowed ==
    /\ [][\A t \in Threads :
            (th[t].fly /\ th[t].pc \in {"conn_pin", "rc_pin"} /\ th'[t] # th[t])
                => /\ th'[t].pc \in {"rc_pin", "read", "write"}
                   /\ th'[t].pc = "rc_pin" => th[t].pc = "conn_pin"
                   /\ th'[t].pc = "read" => th'[t].idx = 1
                   /\ ~th'[t].fly
                   /\ th'[t].exc = "none"
                   /\ client' = Connected /\ client = Connected]_vars
    /\ [](\A t \in Threads :
            (th[t].pc = "exit" /\ th[t].op \in ReadOps \cup WriteOps) =>
                /\ th[t].res \in {"ok", "io"}
                      => th[t].log[Len(th[t].log)].at \in {"read", "write"}
                /\ th[t].res = "conn" => th[t].log[Len(th[t].log)].at = "connect")

\* a write on a Disconnected client with a PIN remembered returned
\* successfully although a wire operation failed: the connect and the write
\* succeeded, so the PIN re-send after the connect is what failed
C30_Witness ==
    \E t \in Threads :
        /\ th[t].op = "write_register_key" /\ th[t].pc = "exit" /\ th[t].res = "ok"
        /\ th[t].pre = None /\ th[t].prePin # NoPin
        /\ th[t].rc = 0 /\ th[t].failed
        /\ Len(th[t].log) = 3

(***************************************************************************)
(* Termination of the public operations of DachsClient.                    *)
(***************************************************************************)

\* the steps of caller t once it has called a public operation: entering
\* "with self._lock", the wire calls and their returns, the except clauses
\* and the return to the caller
Progress(t) ==
    \/ get_fast_keys(t)
    \/ get_slow_keys(t)
    \/ \E p \in {NoPin} \cup Pins : heartbeat(t, p)
    \/ \E key \in DOMAIN WRITE_REGS \cup {UNKNOWN_KEY}, v \in RawValues :
           write_register_key(t, key, v)
    \/ close(t)
    \/ Begin(t)
    \/ \E ok \in BOOLEAN : EndConnect(t, ok)
    \/ \E ok \in BOOLEAN : EndConnPin(t, ok)
    \/ \E ok \in BOOLEAN : EndRcClose(t, ok)
    \/ \E ok \in BOOLEAN : EndRcPin(t, ok)
    \/ \E ok \in BOOLEAN : EndRead(t, ok)
    \/ \E ok \in BOOLEAN : EndWrite(t, ok)
    \/ \E ok \in BOOLEAN : EndClose(t, ok)
    \/ Handle(t)
    \/ Exit(t)

\* every wire call returns or raises and a running thread keeps running;
\* a thread that finds the lock free again and again acquires it at last
Fairness == \A t \in Threads : SF_vars(Progress(t))

FairSpec == Init /\ [][Next]_vars /\ Fairness

MIN_SETPOINT_W == 0          \* 0.0 W
MAX_SETPOINT_W == 55         \* 5.5 W
STEP_W == 100                \* 10.0 W
DEFAULT_SETPOINT_W == 0      \* 0.0 W

\* largest requested power, in tenths of a watt, to either side of zero
MaxReq == 120

Max(a, b) == IF a > b THEN a ELSE b

\* round(n / d) of Python 3 for d > 0: the nearest integer, a tie goes to
\* the even one
RoundHalfEven(n, d) ==
    LET q == n \div d
        r == n % d
    IN  IF 2 * r < d THEN q
        ELSE IF 2 * r > d THEN q + 1
        ELSE IF q % 2 = 0 THEN q ELSE q + 1

\* async_set_native_value: "clamped_w = max(MIN_SETPOINT_W, min(MAX_SETPOINT_W, req_w))"
Clamp(req_w) == Max(MIN_SETPOINT_W, Min(MAX_SETPOINT_W, req_w))

\* async_set_native_value: "raw_w = int(round(clamped_w / STEP_W)) * int(STEP_W)"
Quantize(clamped_w) == RoundHalfEven(clamped_w, STEP_W) * STEP_W

\* the value async_set_native_value hands to write_register_key
SetpointRaw(req_w) == Quantize(Clamp(req_w))

\* requests the model hands to the number entity in the setting of the
\* client: below, at and above the limits
SetpointRequests == {0, MAX_SETPOINT_W}

\* PIN strings of the config entry: none, a letter, a digit, a digit behind
\* a blank, a digit and a letter
HbPinInputs == { <<>>, <<"x">>, <<"1">>, <<" ", "2">>, <<"1", "x">> }

\* the job of one executor thread: which entity started it (kind), where it
\* stands (st), the value it hands to the client (p), and as history what
\* the callback saw in the store (seen), whether it called the client
\* (called), how the client call ended (res), how the coroutine ended (ret),
\* whether the switch was off at its start (off) and the stored setpoint at
\* its start (old)
NoJob ==
    [ kind |-> "none", st |-> "idle", p |-> 0, called |-> FALSE, ret |-> "none",
      res |-> "none", off |-> FALSE, old |-> 0,
      seen |-> [store |-> FALSE, enabled |-> FALSE, pin |-> <<>>] ]

Job(t) == calc.out.job[t]

\* hass.data[DOMAIN][entry.entry_id] exists
StorePresent == calc.fn = "store"

\* __init__.async_setup_entry: store["hb_enabled"] = True, store["glt_pin"] =
\* str(...).strip(), client = DachsClient(host, port, unit); the number
\* entity finds no stored setpoint
HbInit ==
    /\ CoordInit
    /\ SensorInit
    /\ \E present \in BOOLEAN, str \in HbPinInputs :
          calc = [ fn |-> IF present THEN "store" ELSE "nostore",
                   arg |-> Strip(str),
                   flag |-> TRUE,
                   key |-> "none",
                   out |-> [ job |-> [t \in Threads |-> NoJob],
                             setpoint |-> DEFAULT_SETPOINT_W,
                             native |-> DEFAULT_SETPOINT_W ] ]

\* _heartbeat_cb: the early returns before the executor job
CbDecision_switch_ignored(present, enabled, str) ==
    IF ~present THEN "no_store"
    ELSE IF Strip(str) = <<>> THEN "no_pin"
    ELSE IF ~IsDigitString(Strip(str)) THEN "not_numeric"
    ELSE "call"
CbDecision(present, enabled, str) ==
    IF ~present THEN "no_store"
    ELSE IF ~enabled THEN "disabled"
    ELSE IF Strip(str) = <<>> THEN "no_pin"
    ELSE IF ~IsDigitString(Strip(str)) THEN "not_numeric"
    ELSE "call"

\* _heartbeat_cb: "except Exception as err: _LOGGER.error(...)"
CbOutcome(res) == "returned"

\* async_set_native_value: "except ValueError / except Exception: raise
\* HomeAssistantError(...)"
SetOutcome(res) == IF res = "ok" THEN "returned" ELSE "raised"

\* async_set_native_value: "self._store[SETPOINT_STORE_KEY] = float(raw_w)"
\* stands behind the try block
StoreAfterWrite_always(res, old, raw_w) == raw_w
StoreAfterWrite(res, old, raw_w) == IF res = "ok" THEN raw_w ELSE old

\* the scheduled callback runs up to its early return or to the executor job
HeartbeatCb(t) ==
    /\ th[t].pc = "idle" /\ Job(t).st = "idle"
    /\ LET d == CbDecision(StorePresent, calc.flag, calc.arg)
           seen == [store |-> StorePresent, enabled |-> calc.flag, pin |-> calc.arg]
       IN  IF d = "call"
           THEN calc' = [calc EXCEPT !.out.job[t] =
                            [NoJob EXCEPT !.kind = "heartbeat", !.st = "start",
                                          !.p = ParseInt(Strip(calc.arg)),
                                          !.called = TRUE, !.seen = seen]]
           ELSE calc' = [calc EXCEPT !.out.job[t] =
                            [NoJob EXCEPT !.kind = "heartbeat", !.st = "done",
                                          !.ret = "returned", !.res = d, !.seen = seen]]
    /\ UNCHANGED <<coordVars, sensorVars>>

\* the number entity is set: clamp, quantize, then the executor job
async_set_native_value(t, req_w) ==
    /\ StorePresent
    /\ th[t].pc = "idle" /\ Job(t).st = "idle"
    /\ calc' = [calc EXCEPT !.out.job[t] =
                   [NoJob EXCEPT !.kind = "setpoint", !.st = "start",
                                 !.p = SetpointRaw(req_w), !.called = TRUE,
                                 !.off = ~calc.flag, !.old = calc.out.setpoint]]
    /\ UNCHANGED <<coordVars, sensorVars>>

\* hass.async_add_executor_job: the executor thread is given the call
executor_job(t) ==
    /\ Job(t).st = "start"
    /\ Call(t)

\* the executor thread enters client.heartbeat(pin_int)
client_heartbeat(t) ==
    /\ Job(t).st = "start" /\ Job(t).kind = "heartbeat"
    /\ heartbeat(t, Job(t).p)

\* the executor thread enters client.write_register_key("electrical_setpoint_W",
\* float(raw_w)); the raw register value is what _encode_for_write makes of it
client_write_register_key(t) ==
    /\ Job(t).st = "start" /\ Job(t).kind = "setpoint"
    /\ \E raw_value \in RawValues : write_register_key(t, "electrical_setpoint_W", raw_value)

\* the awaited executor job is over: the callback logs an error, the number
\* entity raises HomeAssistantError or stores the setpoint
job_done(t) ==
    /\ th[t].pc = "exit" /\ Job(t).st = "start"
    /\ LET j == Job(t)
           r == th[t].res
       IN  calc' = [calc EXCEPT
                       !.out.job[t] = [j EXCEPT !.st = "done", !.res = r,
                                                !.ret = IF j.kind = "heartbeat"
                                                        THEN CbOutcome(r)
                                                        ELSE SetOutcome(r)],
                       !.out.setpoint = IF j.kind = "setpoint"
                                        THEN StoreAfterWrite(r, @, j.p) ELSE @,
                       !.out.native = IF j.kind = "setpoint"
                                      THEN StoreAfterWrite(r, @, j.p) ELSE @]
    /\ UNCHANGED <<coordVars, sensorVars>>

\* the coroutine is over; with a client call behind it, the executor thread
\* has left "with self._lock" as in Exit
job_exit(t) ==
    /\ Job(t).st = "done"
    /\ IF th[t].pc = "exit"
       THEN /\ lock' = LockAfterExit(t, lock, th[t].res)
            /\ prevOp' = Summary(th[t])
            /\ Upd(t, IdleThread)
            /\ UNCHANGED <<client, pin, fast_keys, slow_keys, connPin, connFirst>>
       ELSE UNCHANGED coordVars
    /\ calc' = [calc EXCEPT !.out.job[t] = NoJob]
    /\ UNCHANGED sensorVars

\* switch.py: _NoopHeartbeatSwitch.async_turn_on / async_turn_off
async_turn_on ==
    /\ StorePresent
    /\ calc' = [calc EXCEPT !.flag = TRUE]
    /\ UNCHANGED <<coordVars, sensorVars>>

async_turn_off ==
    /\ StorePresent
    /\ calc' = [calc EXCEPT !.flag = FALSE]
    /\ UNCHANGED <<coordVars, sensorVars>>

\* the executor threads that serve the callback and the number entity: the
\* jobs of the two are run one after the other
HbThreads == {1}

HbNext ==
    \/ async_turn_on
    \/ async_turn_off
    \/ \E t \in HbThreads :
          \/ HeartbeatCb(t)
          \/ \E req_w \in SetpointRequests : async_set_native_value(t, req_w)
          \/ executor_job(t)
          \/ client_heartbeat(t)
          \/ client_write_register_key(t)
          \/ Begin(t)
          \/ \E ok \in BOOLEAN : EndConnect(t, ok)
          \/ \E ok \in BOOLEAN : EndConnPin(t, ok)
          \/ \E ok \in BOOLEAN : EndRcClose(t, ok)
          \/ \E ok \in BOOLEAN : EndRcPin(t, ok)
          \/ \E ok \in BOOLEAN : EndWrite(t, ok)
          \/ Handle(t)
          \/ job_done(t)
          \/ job_exit(t)

HbSpec == HbInit /\ [][HbNext]_vars

\* C32: _heartbeat_cb calls client.heartbeat only when it saw the store, saw
\* hb_enabled true and saw a stored PIN that is a non-empty string of
\* digits, and then with the number the digits spell; in every other case
\* the executor thread is given no call; and the callback never raises,
\* whatever the end of client.heartbeat.
C32_HeartbeatCbGuarded ==
    \A t \in Threads :
        LET j == Job(t)
            go == j.seen.store /\ j.seen.enabled /\ IsDigitString(j.seen.pin)
        IN  /\ th[t].op = "heartbeat" => j.kind = "heartbeat" /\ j.called
            /\ j.kind = "heartbeat" =>
                  /\ j.called => go /\ j.p = ParseInt(j.seen.pin)
                  /\ ~go => /\ ~j.called /\ j.st = "done" /\ j.ret = "returned"
                            /\ th[t].pc = "idle" /\ th[t].log = <<>>
                  /\ j.st = "done" => j.ret = "returned"
                  /\ j.ret # "raised"

\* client.heartbeat raised an I/O error after its retry, and the callback
\* returned
C32_Witness ==
    \E t \in Threads :
        /\ Job(t).kind = "heartbeat" /\ Job(t).called
        /\ Job(t).st = "done" /\ Job(t).res = "io" /\ Job(t).ret = "returned"
        /\ th[t].op = "heartbeat" /\ th[t].rc = 1

\* C33 (as claimed): while the heartbeat switch is off, the DachsClient of
\* __init__.py puts no FC=06 write to register 8300 on the wire: no job that
\* was started with hb_enabled false has, while hb_enabled is still false, a
\* write to the PIN register in flight, be it the write of a heartbeat or a
\* PIN re-send after a connect or reconnect.
C33_NoPinWriteWhileOff ==
    \A t \in Threads :
        ~ /\ ~calc.flag
          /\ Job(t).off
          /\ th[t].fly
          /\ th[t].pc \in {"conn_pin", "rc_pin", "write"}
          /\ Request(th[t]).rq = "write"
          /\ Request(th[t]).a = GLT_PIN_REG

(***************************************************************************)
(* Clamping and quantizing of the requested setpoint in number.py.         *)
(***************************************************************************)

\* a request of the user interface, in tenths of a watt
NumberInit ==
    /\ CoordInit
    /\ SensorInit
    /\ \E req_w \in (-MaxReq)..MaxReq : calc = [NoCalc EXCEPT !.arg = req_w]

\* async_set_native_value up to the call of write_register_key: out is the
\* value handed to the client
set_native_value ==
    /\ calc.fn = "none"
    /\ calc' = [calc EXCEPT !.fn = "async_set_native_value",
                            !.out = SetpointRaw(calc.arg)]
    /\ UNCHANGED <<coordVars, sensorVars>>

NumberNext == set_native_value

NumberSpec == NumberInit /\ [][NumberNext]_vars

\* C34 (as claimed): the value async_set_native_value passes to
\* write_register_key is a whole multiple of STEP_W and lies within
\* MIN_SETPOINT_W .. MAX_SETPOINT_W, for every requested value.
C34_SetpointWithinLimits ==
    calc.fn = "async_set_native_value" =>
        /\ calc.out % STEP_W = 0
        /\ MIN_SETPOINT_W <= calc.out
        /\ calc.out <= MAX_SETPOINT_W

\* C35: the stored setpoint changes only after a successful write.  While
\* write_register_key runs, store["electrical_setpoint_W"] and the native
\* value of the entity are what they were when async_set_native_value
\* began; when write_register_key raised, the coroutine raises
\* (HomeAssistantError) and both are still unchanged; when it returned, the
\* coroutine returns and both hold the value that was handed to
\* write_register_key.
C35_StoreFollowsWrite ==
    \A t \in Threads :
        LET j == Job(t)
        IN  j.kind = "setpoint" =>
               /\ j.st = "start" =>
                     calc.out.setpoint = j.old /\ calc.out.native = j.old
               /\ (j.st = "done" /\ j.res # "ok") =>
                     /\ j.ret = "raised"
                     /\ calc.out.setpoint = j.old /\ calc.out.native = j.old
               /\ (j.st = "done" /\ j.res = "ok") =>
                     /\ j.ret = "returned"
                     /\ calc.out.setpoint = j.p /\ calc.out.native = j.p
                     /\ \E i \in 1..Len(th[t].log) :
                           /\ th[t].log[i].rq = "write"
                           /\ th[t].log[i].a = WRITE_REGS["electrical_setpoint_W"].ref

\* a setpoint other than the stored one was requested, write_register_key
\* raised after its retry, and the store kept the old value
C35_Witness ==
    \E t \in Threads :
        /\ Job(t).kind = "setpoint" /\ Job(t).st = "done"
        /\ Job(t).res = "io" /\ Job(t).ret = "raised"
        /\ Job(t).old # Job(t).p
        /\ Job(t).old = STEP_W
        /\ calc.out.setpoint = Job(t).old
        /\ th[t].rc = 1

\* ---------------------------------------------------------------------
\* The static key lists of sensor.py and const_bhkw.py against the
\* catalog READ_REGS
\* ---------------------------------------------------------------------

\* keys of ENUM_MAPS, each with the name of its value map
ENUM_MAPS ==
    [k \in {"plant_status_enum", "request_type_enum",
            "last_shutdown_reason_enum"} |->
        CASE k = "plant_status_enum" -> "PLANT_STATUS_MAP"
          [] k = "request_type_enum" -> "REQUEST_TYPE_MAP"
          [] OTHER -> "LAST_SHUTDOWN_REASON_MAP"]

\* values of the members of DachsKey listed under "# reads"
DachsKey_reads ==
    << "glt_version", "device_type", "serial_1_2", "serial_3_4", "serial_5_6",
       "serial_7_8", "serial_9_10", "serial_11_12", "serial_13_14",
       "serial_15_16", "serial_17_18", "serial_19_20",
       "module_nominal_power_kW", "plant_status_enum", "electrical_power_kW",
       "request_type_enum", "runtime_since_start_h", "last_shutdown_reason",
       "pump_status_enum", "temp_out_C", "temp_in_C", "lead_quantity_enum",
       "min_runtime_min", "max_inlet_temp_C", "modulation_onoff",
       "fixed_stage_level", "module_type_enum", "op_hours_total_h",
       "start_count", "energy_el_total_kWh", "energy_th_total_kWh",
       "op_hours_stage1_h", "op_hours_stage2_h", "op_hours_stage3_h",
       "outdoor_temp_C", "buffer_T1_C", "buffer_T2_C", "buffer_T3_C",
       "buffer_T4_C", "buffer_T5_unused", "buffer_T6_unused",
       "sensor1_unused", "sensor2_unused", "sensor3_unused", "sensor4_unused",
       "temp_sensor5_C", "temp_sensor6_C", "temp_sensor7_C", "temp_sensor8_C",
       "discharge_power_pct", "buffer_type_enum", "buffer_volume_l",
       "buffer_sensor_cfg_enum", "buffer_pos1_pct", "buffer_pos2_pct",
       "buffer_pos3_pct", "buffer_pos4_pct", "heat_provisioning_enum",
       "buffer_discharge_onoff", "mm_active_power_kW", "mm_modules_detected",
       "mm_modules_available", "mm_modules_requested", "mm_modules_running",
       "mm_modules_configured", "mm_nominal_power_kW", "we2_status_enum",
       "we2_set_status_enum", "we2_start_count", "we2_op_hours_h",
       "we2_available_bool", "we2_release_bool", "we2_nominal_power_kW",
       "we2_min_runtime_min", "we2_connected_to_buffer" >>

\* the static key lists by name; DEFAULT_KEYS holds members of DachsKey and
\* FAST_KEYS_DEFAULT_STR their values, so both lists hold the same names
StaticKeyLists ==
    [l \in {"NO_MERGE_KEYS", "DachsKey", "FAST_KEYS_DEFAULT_STR", "ENUM_MAPS"} |->
        CASE l = "NO_MERGE_KEYS" -> NO_MERGE_KEYS
          [] l = "DachsKey" -> {DachsKey_reads[i] : i \in DOMAIN DachsKey_reads}
          [] l = "FAST_KEYS_DEFAULT_STR" ->
                {FAST_KEYS_DEFAULT_STR[i] : i \in DOMAIN FAST_KEYS_DEFAULT_STR}
          [] OTHER -> DOMAIN ENUM_MAPS]

\* one name of one static list is about to be looked up
KeyListInit ==
    /\ CoordInit
    /\ SensorInit
    /\ \E l \in DOMAIN StaticKeyLists : \E k \in StaticKeyLists[l] :
          calc = [NoCalc EXCEPT !.key = l, !.arg = k]

\* spec = READ_REGS[k]: the entry of the name, or KeyError for a name the
\* catalog does not hold
resolve ==
    /\ calc.fn = "none"
    /\ calc' = IF calc.arg \in DOMAIN READ_REGS
               THEN [calc EXCEPT !.fn = "resolve", !.out = <<READ_REGS[calc.arg]>>]
               ELSE [calc EXCEPT !.fn = "KeyError"]
    /\ UNCHANGED <<coordVars, sensorVars>>

KeyListNext == resolve

KeyListSpec == KeyListInit /\ [][KeyListNext]_vars

\* C36: every name of a static key list (NO_MERGE_KEYS, the read members of
\* DachsKey, DEFAULT_KEYS / FAST_KEYS_DEFAULT_STR, the keys of ENUM_MAPS) is
\* a key of READ_REGS, so looking it up in the catalog never ends in KeyError
C36_StaticKeysResolve ==
    calc.fn # "none" =>
        /\ calc.fn = "resolve"
        /\ calc.out = <<READ_REGS[calc.arg]>>

====
